---- MODULE Spec2Model ----
(***************************************************************************)
(* Model of the voxel gas grid of src/src/grid.rs: the Atom sum type, the  *)
(* Grid (atoms array and step_counter), the four phases of Grid::step, the *)
(* part of Editor::update that steps and edits the grid, Grid::load and    *)
(* Grid::save with the JSON text between them, Grid::positions,            *)
(* Grid2d::atoms_on_path and Grid2d::modify_under_path of                  *)
(* src/src/grid/grid2d.rs, EventMgr of src/src/events.rs, and the event    *)
(* handling of Game::update_and_render_grid of src/src/game.rs.            *)
(*                                                                         *)
(* Numbers.  An f32 is modelled as an exact rational <<n, d>> in lowest    *)
(* terms with d > 0; rounding of f32 arithmetic is not modelled.  A Vec3   *)
(* is a triple of rationals, a UVec3 a triple of naturals <<x, y, z>>.     *)
(* A float -> usize cast saturates (negative and NaN give 0).              *)
(*                                                                         *)
(* The grid is the nested array atoms[x][y][z] with indices from 0.  SIZE  *)
(* is 32 in the source; the model runs the same code at SIZE = 6, the      *)
(* smallest even size at which the cells (2,2,2) and (3,2,2) are interior  *)
(* and both the even and the odd block phases have several blocks.         *)
(***************************************************************************)
EXTENDS Integers, Sequences, FiniteSets, TLC

SIZE == 6

SPREAD_FREQUENCY == 2

\* Width in bits of step_counter (u64 in the source, narrowed here).
CounterWidth == 3

\* Number of Grid::step calls a behaviour of SpecGrid may make.
MaxSteps == 1

\* Number of Grid::step calls and of grid edits a behaviour of Spec may make.
MaxPlay == 2

MaxEdits == 1

RECURSIVE Pow2(_)
Pow2(n) == IF n = 0 THEN 1 ELSE 2 * Pow2(n - 1)

CounterMod == Pow2(CounterWidth)

-----------------------------------------------------------------------------
(* Rational arithmetic standing for f32.                                   *)

Abs(i) == IF i < 0 THEN -i ELSE i

RECURSIVE Gcd(_, _)
Gcd(a, b) == IF b = 0 THEN a ELSE Gcd(b, a % b)

\* The rational n/d (d # 0) in lowest terms with a positive denominator.
Q(n, d) ==
    LET g == Gcd(Abs(n), Abs(d))
        s == IF d < 0 THEN -1 ELSE 1
    IN  <<(s * n) \div g, (s * d) \div g>>

QInt(i) == <<i, 1>>

QZero == QInt(0)

QOne == QInt(1)

\* The operations divide by common factors before they multiply, which
\* keeps the intermediate integers small.
QAdd(a, b) ==
    LET g == Gcd(a[2], b[2])
    IN  Q(a[1] * (b[2] \div g) + b[1] * (a[2] \div g), (a[2] \div g) * b[2])

QMul(a, b) ==
    LET g1 == Gcd(Abs(a[1]), b[2])
        g2 == Gcd(Abs(b[1]), a[2])
    IN  Q((a[1] \div g1) * (b[1] \div g2), (a[2] \div g2) * (b[2] \div g1))

\* a / k for a positive count k (the "/ gases.len() as f32" of the source).
QDivN(a, k) == QMul(a, <<1, k>>)

QLess(a, b) ==
    LET g == Gcd(a[2], b[2])
    IN  a[1] * (b[2] \div g) < b[1] * (a[2] \div g)

QLeq(a, b) == ~QLess(b, a)

\* Vec3 of rationals.
V3(x, y, z) == <<QInt(x), QInt(y), QInt(z)>>

VZero == V3(0, 0, 0)

VAdd(a, b) == <<QAdd(a[1], b[1]), QAdd(a[2], b[2]), QAdd(a[3], b[3])>>

\* Vec3 * f32
VScale(v, s) == <<QMul(v[1], s), QMul(v[2], s), QMul(v[3], s)>>

VDivN(v, k) == <<QDivN(v[1], k), QDivN(v[2], k), QDivN(v[3], k)>>

length_squared(v) ==
    QAdd(QMul(v[1], v[1]), QAdd(QMul(v[2], v[2]), QMul(v[3], v[3])))

-----------------------------------------------------------------------------
(* enum Atom { Solid(Vec4), Gas((f32, Vec3)), GasSource(Vec3) }            *)

Solid(color) == [tag |-> "Solid", color |-> color]

Gas(p, v) == [tag |-> "Gas", p |-> p, v |-> v]

GasSource(d) == [tag |-> "GasSource", d |-> d]

IsGas(atom) == atom.tag = "Gas"

IsSolid(atom) == atom.tag = "Solid"

IsGasSource(atom) == atom.tag = "GasSource"

\* Gas((0.0, Vec3::ZERO))
GasZero == Gas(QZero, VZero)

\* Colours used by the source: Vec4 of f32.
Grey == <<Q(1, 2), Q(1, 2), Q(1, 2), QOne>>

Red == <<QOne, QZero, QZero, QOne>>

Green == <<QZero, QOne, QZero, QOne>>

Blue == <<QZero, QZero, QOne, QOne>>

White == <<QOne, QOne, QOne, QOne>>

\* A mutant of sum_gas: the velocity is divided by the total pressure.
sum_gas_normalised(a, b) ==
    LET total_p == QAdd(a.p, b.p)
        total_v == VAdd(VScale(a.v, a.p), VScale(b.v, b.p))
    IN  Gas(total_p,
            IF total_p[1] = 0 THEN total_v
            ELSE VScale(total_v, Q(total_p[2], total_p[1])))

\* A mutant of sum_gas: the second pressure is subtracted from the first.
sum_gas_difference(a, b) ==
    LET total_p == QAdd(a.p, QMul(QInt(-1), b.p))
        total_v == VAdd(VScale(a.v, a.p), VScale(b.v, b.p))
    IN  Gas(total_p, total_v)

\* fn sum_gas(a, b): a and b are the (pressure, velocity) pairs of two gases.
sum_gas(a, b) ==
    LET total_p == QAdd(a.p, b.p)
        total_v == VAdd(VScale(a.v, a.p), VScale(b.v, b.p))
    IN  Gas(total_p, total_v)

-----------------------------------------------------------------------------
(* Grid storage and addressing: atoms is Vec<Vec<Vec<Atom>>>.              *)

\* A vec![...; n] as a function on 0..n-1.
VecLen(vec) == Cardinality(DOMAIN vec)

\* A usize index is valid for a Vec iff it is below its length.
InBounds(a, pos) ==
    /\ pos[1] \in DOMAIN a
    /\ pos[2] \in DOMAIN a[pos[1]]
    /\ pos[3] \in DOMAIN a[pos[1]][pos[2]]

\* Grid::at
at(a, pos) == a[pos[1]][pos[2]][pos[3]]

\* *grid.at_mut(pos) = atom, and self.atoms[x][y][z] = atom
at_mut(a, pos, atom) == [a EXCEPT ![pos[1]][pos[2]][pos[3]] = atom]

\* A mutant of positions: z outermost, y in the middle, x innermost.
positions_z_outermost(a) ==
    LET x_size == VecLen(a)
        y_size == VecLen(a[0])
        z_size == VecLen(a[0][0])
    IN  [i \in 1..(x_size * y_size * z_size) |->
            <<(i - 1) % x_size,
              ((i - 1) \div x_size) % y_size,
              (i - 1) \div (x_size * y_size)>>]

\* Grid::positions: x outermost, y in the middle, z innermost.
positions(a) ==
    LET x_size == VecLen(a)
        y_size == VecLen(a[0])
        z_size == VecLen(a[0][0])
    IN  [i \in 1..(x_size * y_size * z_size) |->
            <<(i - 1) \div (y_size * z_size),
              ((i - 1) \div z_size) % y_size,
              (i - 1) % z_size>>]

\* Left fold of Op over s[lo..hi] in index order.  The range is split in
\* halves and the result of the first half is computed before the second is
\* entered, which keeps the evaluation shallow.
RECURSIVE FoldRange(_, _, _, _, _)
FoldRange(Op(_, _), acc, s, lo, hi) ==
    IF lo > hi THEN acc
    ELSE IF lo = hi THEN Op(acc, s[lo])
    ELSE LET mid == (lo + hi) \div 2
             left == FoldRange(Op, acc, s, lo, mid)
         IN  IF DOMAIN left = DOMAIN left
             THEN FoldRange(Op, left, s, mid + 1, hi)
             ELSE left

\* A for loop over the sequence s that updates acc.
Fold(Op(_, _), acc, s) == FoldRange(Op, acc, s, 1, Len(s))

manhattan_distance(a, b) ==
    Abs(a[1] - b[1]) + Abs(a[2] - b[2]) + Abs(a[3] - b[3])

Max2(i, j) == IF i >= j THEN i ELSE j

chebyshev_distance(a, b) ==
    Max2(Abs(a[1] - b[1]), Max2(Abs(a[2] - b[2]), Abs(a[3] - b[3])))

\* floor(0.5 + v[i] / |v|) for a non-zero v: 1 when the normalised component
\* is at least 1/2, -1 when it is below -1/2, else 0.  Squares are compared,
\* so no square root is taken.
unit_offset(v, i) ==
    LET l2 == length_squared(v)
        c2 == QMul(QInt(4), QMul(v[i], v[i]))
    IN  IF v[i][1] > 0 /\ QLeq(l2, c2) THEN 1
        ELSE IF v[i][1] < 0 /\ QLess(l2, c2) THEN -1
        ELSE 0

\* (pos.as_vec3() + Vec3::splat(0.5) + v.normalize()).as_usizevec3()
\* normalize() of the zero vector is NaN, which the cast turns into 0; a
\* negative coordinate is cast to 0.
offset_cell(pos, v) ==
    IF length_squared(v) = QZero
    THEN <<0, 0, 0>>
    ELSE <<Max2(0, pos[1] + unit_offset(v, 1)),
           Max2(0, pos[2] + unit_offset(v, 2)),
           Max2(0, pos[3] + unit_offset(v, 3))>>

-----------------------------------------------------------------------------
(* The phases of Grid::step.  Each takes the atoms array and returns       *)
(* [atoms, panic]: the array after the phase and "none", or the array as   *)
(* it was when the process aborted and the reason.  debug says whether     *)
(* debug assertions are compiled in.                                       *)

Done(a) == [atoms |-> a, panic |-> "none"]

Abort(a, why) == [atoms |-> a, panic |-> why]

\* The velocity threshold 0.001 of simulate_gas_velocity.
Negligible(v) == QLess(length_squared(v), Q(1, 1000))

\* The Gas cells simulate_gas_velocity moves, in positions() order.
moving_gases(a) ==
    SelectSeq(positions(a),
              LAMBDA pos : IsGas(at(a, pos)) /\ ~Negligible(at(a, pos).v))

\* The check the scan of simulate_gas_velocity makes for one source.
velocity_failure(a, src_pos, debug) ==
    LET dst_pos == offset_cell(src_pos, at(a, src_pos).v)
    IN  IF debug /\ chebyshev_distance(src_pos, dst_pos) > 1
        THEN "assert chebyshev_distance <= 1"
        ELSE IF debug /\ src_pos = dst_pos
        THEN "assert src_pos != dst_pos"
        ELSE IF /\ dst_pos[1] < SIZE /\ dst_pos[2] < SIZE /\ dst_pos[3] < SIZE
                /\ ~InBounds(a, dst_pos)
        THEN "index out of bounds"
        ELSE "none"

\* Whether a source's gas is pushed on gases_to_add.
is_added(a, src_pos) ==
    LET dst_pos == offset_cell(src_pos, at(a, src_pos).v)
    IN  /\ dst_pos[1] < SIZE /\ dst_pos[2] < SIZE /\ dst_pos[3] < SIZE
        /\ IsGas(at(a, dst_pos))

\* A mutant of the write loops: the additions are made before the zeroing.
simulate_gas_velocity_adds_first(a, gases_to_zero, gases_to_add) ==
    LET added == Fold(LAMBDA acc, add :
                          IF IsGas(at(acc, add[1]))
                          THEN at_mut(acc, add[1], sum_gas(at(acc, add[1]), add[2]))
                          ELSE acc,
                      a, gases_to_add)
    IN  Fold(LAMBDA acc, to_zero : at_mut(acc, to_zero, GasZero),
             added, gases_to_zero)

\* A mutant of the write loops: an addition replaces the destination's gas.
simulate_gas_velocity_overwrites(a, gases_to_zero, gases_to_add) ==
    LET zeroed == Fold(LAMBDA acc, to_zero : at_mut(acc, to_zero, GasZero),
                       a, gases_to_zero)
    IN  Fold(LAMBDA acc, add :
                 IF IsGas(at(acc, add[1]))
                 THEN at_mut(acc, add[1], Gas(add[2].p, add[2].v))
                 ELSE acc,
             zeroed, gases_to_add)

\* A mutant of the write loops: the sources are copied into their
\* destinations and not zeroed.
simulate_gas_velocity_copies(a, gases_to_zero, gases_to_add) ==
    Fold(LAMBDA acc, add :
             IF IsGas(at(acc, add[1]))
             THEN at_mut(acc, add[1], sum_gas(at(acc, add[1]), add[2]))
             ELSE acc,
         a, gases_to_add)

\* The two write loops of simulate_gas_velocity.
simulate_gas_velocity_writes(a, gases_to_zero, gases_to_add) ==
    LET zeroed == Fold(LAMBDA acc, to_zero : at_mut(acc, to_zero, GasZero),
                       a, gases_to_zero)
    IN  Fold(LAMBDA acc, add :
                 IF IsGas(at(acc, add[1]))
                 THEN at_mut(acc, add[1], sum_gas(at(acc, add[1]), add[2]))
                 ELSE acc,
             zeroed, gases_to_add)

\* Grid::simulate_gas_velocity
simulate_gas_velocity(a, debug) ==
    LET gases_to_zero == moving_gases(a)
        failed == SelectSeq(gases_to_zero,
                            LAMBDA pos : velocity_failure(a, pos, debug) # "none")
        sources == SelectSeq(gases_to_zero, LAMBDA pos : is_added(a, pos))
        gases_to_add == [i \in 1..Len(sources) |->
                            <<offset_cell(sources[i], at(a, sources[i]).v),
                              at(a, sources[i])>>]
    IN  IF failed # <<>>
        THEN Abort(a, velocity_failure(a, failed[1], debug))
        ELSE Done(simulate_gas_velocity_writes(a, gases_to_zero, gases_to_add))

\* A mutant of SOURCE_PRESSURE.
SOURCE_PRESSURE_doubled == QInt(2)

SOURCE_PRESSURE == QOne

\* The GasSource cells with their directions, in positions() order.
gas_sources(a) ==
    LET found == SelectSeq(positions(a), LAMBDA pos : IsGasSource(at(a, pos)))
    IN  [i \in 1..Len(found) |-> <<found[i], at(a, found[i]).d>>]

\* A mutant of inject: a target that holds no Gas is overwritten with the
\* injected gas.
inject_over_any(acc, source, debug) ==
    LET pos == source[1]
        source_v == source[2]
        adjacent == offset_cell(pos, source_v)
        a == acc.atoms
    IN  IF acc.panic # "none" THEN acc
        ELSE IF debug /\ manhattan_distance(pos, adjacent) # 1
        THEN Abort(a, "assert manhattan_distance == 1")
        ELSE IF ~InBounds(a, adjacent)
        THEN Abort(a, "index out of bounds")
        ELSE IF IsGas(at(a, adjacent))
        THEN Done(at_mut(a, adjacent,
                         sum_gas(at(a, adjacent),
                                 [p |-> SOURCE_PRESSURE, v |-> source_v])))
        ELSE Done(at_mut(a, adjacent, Gas(SOURCE_PRESSURE, source_v)))

\* The body of the loop of step_gas_source for one source, on the result so
\* far (nothing more happens once the process has aborted).
inject(acc, source, debug) ==
    LET pos == source[1]
        source_v == source[2]
        adjacent == offset_cell(pos, source_v)
        a == acc.atoms
    IN  IF acc.panic # "none" THEN acc
        ELSE IF debug /\ manhattan_distance(pos, adjacent) # 1
        THEN Abort(a, "assert manhattan_distance == 1")
        ELSE IF ~InBounds(a, adjacent)
        THEN Abort(a, "index out of bounds")
        ELSE IF IsGas(at(a, adjacent))
        THEN Done(at_mut(a, adjacent,
                         sum_gas(at(a, adjacent),
                                 [p |-> SOURCE_PRESSURE, v |-> source_v])))
        ELSE acc

\* Grid::step_gas_source
step_gas_source(a, debug) ==
    Fold(LAMBDA acc, source : inject(acc, source, debug), Done(a), gas_sources(a))

\* The cells of the 2x2x2 section at pos, in the order of the dx, dy, dz loops.
cells_2x2x2(pos) ==
    [i \in 1..8 |-> <<pos[1] + ((i - 1) \div 4),
                      pos[2] + (((i - 1) \div 2) % 2),
                      pos[3] + ((i - 1) % 2)>>]

\* A mutant of mut_gases_2x2x2: the section is the 2x2 layer at dx = 0.
mut_gases_2x2(a, pos) ==
    SelectSeq(SubSeq(cells_2x2x2(pos), 1, 4), LAMBDA cell : IsGas(at(a, cell)))

\* Grid::mut_gases_2x2x2: the Gas cells of the section (the model keeps the
\* position of each gas the source holds a reference to).
mut_gases_2x2x2(a, pos) ==
    SelectSeq(cells_2x2x2(pos), LAMBDA cell : IsGas(at(a, cell)))

\* Sum of the eight values f[1] .. f[8] of rationals.
QSum8(f) ==
    QAdd(QAdd(QAdd(f[1], f[2]), QAdd(f[3], f[4])),
         QAdd(QAdd(f[5], f[6]), QAdd(f[7], f[8])))

\* The totals of reach_local_equilibrium over the gases of the section at
\* pos: a cell that holds no gas adds nothing.
pressure_total(a, pos) ==
    QSum8([i \in 1..8 |->
              LET atom == at(a, cells_2x2x2(pos)[i])
              IN  IF IsGas(atom) THEN atom.p ELSE QZero])

velocity_total(a, pos) ==
    LET part(k) ==
            QSum8([i \in 1..8 |->
                      LET atom == at(a, cells_2x2x2(pos)[i])
                      IN  IF IsGas(atom) THEN atom.v[k] ELSE QZero])
    IN  <<part(1), part(2), part(3)>>

\* A mutant of mean_gas: the totals are divided by the 8 cells of a section.
mean_gas_of_eight(a, pos) ==
    Gas(QDivN(pressure_total(a, pos), 8), VDivN(velocity_total(a, pos), 8))

\* The averaged gas of reach_local_equilibrium, for a section with a gas.
mean_gas(a, pos) ==
    LET len == Len(mut_gases_2x2x2(a, pos))
    IN  Gas(QDivN(pressure_total(a, pos), len), VDivN(velocity_total(a, pos), len))

\* The closure reach_local_equilibrium of spread_gas, on the result so far.
\* With no gas in the section a release build divides 0.0 by 0 and writes
\* nothing.
reach_local_equilibrium(acc, pos, debug) ==
    LET a == acc.atoms
        c == cells_2x2x2(pos)
        mean == mean_gas(a, pos)
        set(old) == IF IsGas(old) THEN mean ELSE old
    IN  IF acc.panic # "none" THEN acc
        ELSE IF \E i \in 1..8 : ~InBounds(a, c[i])
        THEN Abort(a, "pointer past the end")
        ELSE IF Len(mut_gases_2x2x2(a, pos)) = 0
        THEN (IF debug THEN Abort(a, "assert gases.len() != 0") ELSE acc)
        ELSE Done([a EXCEPT ![c[1][1]][c[1][2]][c[1][3]] = set(@),
                            ![c[2][1]][c[2][2]][c[2][3]] = set(@),
                            ![c[3][1]][c[3][2]][c[3][3]] = set(@),
                            ![c[4][1]][c[4][2]][c[4][3]] = set(@),
                            ![c[5][1]][c[5][2]][c[5][3]] = set(@),
                            ![c[6][1]][c[6][2]][c[6][3]] = set(@),
                            ![c[7][1]][c[7][2]][c[7][3]] = set(@),
                            ![c[8][1]][c[8][2]][c[8][3]] = set(@)])

\* (start..end).step_by(2) as a sequence (end is excluded).
step_by_2(start, end) ==
    [i \in 1..((end - start + 1) \div 2) |-> start + 2 * (i - 1)]

\* The section origins of three nested loops over the same range.
origins(range) ==
    LET n == Len(range)
    IN  [i \in 1..(n * n * n) |->
            <<range[((i - 1) \div (n * n)) + 1],
              range[(((i - 1) \div n) % n) + 1],
              range[((i - 1) % n) + 1]>>]

\* A mutant of spread_blocks: both alignments are averaged on the even phase.
spread_blocks_both(step_counter) ==
    IF step_counter % (SPREAD_FREQUENCY * 2) = 0
    THEN origins(step_by_2(0, SIZE)) \o origins(step_by_2(1, SIZE - 1))
    ELSE IF step_counter % (SPREAD_FREQUENCY * 2) = SPREAD_FREQUENCY
    THEN origins(step_by_2(1, SIZE - 1))
    ELSE <<>>

\* A mutant of spread_blocks: the odd phase averages the even-aligned
\* blocks too.
spread_blocks_even_only(step_counter) ==
    IF step_counter % SPREAD_FREQUENCY = 0
    THEN origins(step_by_2(0, SIZE))
    ELSE <<>>

\* The origins spread_gas passes to reach_local_equilibrium, in order.
spread_blocks(step_counter) ==
    IF step_counter % (SPREAD_FREQUENCY * 2) = 0
    THEN origins(step_by_2(0, SIZE))
    ELSE IF step_counter % (SPREAD_FREQUENCY * 2) = SPREAD_FREQUENCY
    THEN origins(step_by_2(1, SIZE - 1))
    ELSE <<>>

\* Grid::spread_gas
spread_gas(a, step_counter, debug) ==
    Fold(LAMBDA acc, pos : reach_local_equilibrium(acc, pos, debug),
         Done(a), spread_blocks(step_counter))

\* A mutant of edge_writes: only the twelve edge lines are assigned.
edge_writes_lines ==
    LET s == SIZE - 1
    IN  [i \in 1..(SIZE * 12) |->
            LET a == (i - 1) \div 12
                k == (i - 1) % 12
                u == IF k % 4 >= 2 THEN s ELSE 0
                w == IF k % 2 = 1 THEN s ELSE 0
            IN  CASE k < 4 -> <<a, u, w>>
                  [] k >= 4 /\ k < 8 -> <<u, a, w>>
                  [] k >= 8 -> <<u, w, a>>]

\* The cells apply_edge_vacuum assigns, in the order of its loops.
edge_writes ==
    LET s == SIZE - 1
    IN  [i \in 1..(SIZE * SIZE * 6) |->
            LET a == (i - 1) \div (SIZE * 6)
                b == ((i - 1) \div 6) % SIZE
                k == (i - 1) % 6
            IN  CASE k = 0 -> <<a, b, 0>>
                  [] k = 1 -> <<a, 0, b>>
                  [] k = 2 -> <<0, a, b>>
                  [] k = 3 -> <<a, b, s>>
                  [] k = 4 -> <<a, s, b>>
                  [] k = 5 -> <<s, a, b>>]

\* The set of cells apply_edge_vacuum assigns.
edge_cells == {edge_writes[i] : i \in DOMAIN edge_writes}

\* A mutant of vacuum_atom: the boundary damps the pressure it holds.
vacuum_atom_damped(old) ==
    IF IsGas(old) THEN Gas(QDivN(QAdd(old.p, QOne), 2), VZero) ELSE GasZero

\* The atom apply_edge_vacuum stores in a cell that held old.
vacuum_atom(old) == GasZero

\* Grid::apply_edge_vacuum.  Every assignment stores the same atom, so the
\* loops leave each assigned cell with it and the other cells as they were.
apply_edge_vacuum(a) ==
    IF \E pos \in edge_cells : ~InBounds(a, pos)
    THEN Abort(a, "index out of bounds")
    ELSE Done([x \in DOMAIN a |-> [y \in DOMAIN a[x] |-> [z \in DOMAIN a[x][y] |->
                  IF <<x, y, z>> \in edge_cells
                  THEN vacuum_atom(a[x][y][z])
                  ELSE a[x][y][z]]]])

\* A mutant of wrapping_add_1: the counter wraps one value early, at a limit
\* that 2 * SPREAD_FREQUENCY does not divide.
wrapping_add_1_early(counter) == (counter + 1) % (CounterMod - 1)

\* self.step_counter.wrapping_add(1)
wrapping_add_1(counter) == (counter + 1) % CounterMod

-----------------------------------------------------------------------------
(* Grid::load                                                              *)

\* vec![vec![vec![atom; SIZE]; SIZE]; SIZE]
filled(atom) ==
    [x \in 0..(SIZE - 1) |-> [y \in 0..(SIZE - 1) |-> [z \in 0..(SIZE - 1) |-> atom]]]

\* The Err(_) arm of Grid::load.
default_atoms ==
    LET a0 == filled(GasZero)
        a1 == at_mut(a0, <<1, 1, 1>>, Solid(Grey))
        a2 == at_mut(a1, <<SIZE - 2, 1, 1>>, Solid(Red))
        a3 == at_mut(a2, <<1, SIZE - 2, 1>>, Solid(Green))
        a4 == at_mut(a3, <<1, 1, SIZE - 2>>, Solid(Blue))
    IN  at_mut(a4, <<SIZE - 2, SIZE - 2, SIZE - 2>>, Solid(White))

\* An f32 that is not finite: the pair <<sign, 0>>.  The arithmetic above is
\* that of finite values; a value that is not finite enters a grid only
\* through Grid::load, and the model stores, saves and compares it only.
Infinity(sign) == <<sign, 0>>

is_finite(q) == q[2] # 0

\* JSON text, as the tree serde_json writes and reads.  A number literal is
\* its value when that lies within the range of f32, and its sign alone
\* when it is a decimal beyond f32::MAX (1e39, say).
JsonNull == [json |-> "null"]

JsonNumber(q) == [json |-> "number", range |-> "f32", q |-> q]

JsonLargeNumber(sign) == [json |-> "number", range |-> "f64", sign |-> sign]

JsonArray(items) == [json |-> "array", items |-> items]

JsonObject(key, value) == [json |-> "object", key |-> key, value |-> value]

\* Serializer::serialize_f32: a value that is not finite is written as null.
serialize_f32(q) == IF is_finite(q) THEN JsonNumber(q) ELSE JsonNull

\* Vec3 and Vec4 are written as arrays of their components.
serialize_vec(v) == JsonArray([i \in 1..Len(v) |-> serialize_f32(v[i])])

\* #[derive(Serialize)] of Atom: an object keyed by the variant's name.
serialize_atom(atom) ==
    CASE IsSolid(atom) -> JsonObject("Solid", serialize_vec(atom.color))
      [] IsGas(atom) ->
             JsonObject("Gas", JsonArray(<<serialize_f32(atom.p), serialize_vec(atom.v)>>))
      [] IsGasSource(atom) -> JsonObject("GasSource", serialize_vec(atom.d))

\* A Vec as the JSON array of its elements in index order.
to_string(a) ==
    JsonArray([i \in 1..VecLen(a) |->
        JsonArray([j \in 1..VecLen(a[i - 1]) |->
            JsonArray([k \in 1..VecLen(a[i - 1][j - 1]) |->
                serialize_atom(a[i - 1][j - 1][k - 1])])])])

\* Deserializing an f32 accepts a number only; a number beyond f32::MAX is
\* read as an f64 and cast, which gives an infinity.
is_f32(j) == j.json = "number"

deserialize_f32(j) == IF j.range = "f32" THEN j.q ELSE Infinity(j.sign)

\* A Vec3 or Vec4 is read from an array of exactly n numbers.
is_vec(j, n) ==
    /\ j.json = "array"
    /\ Len(j.items) = n
    /\ \A i \in 1..n : is_f32(j.items[i])

deserialize_vec(j) == [i \in 1..Len(j.items) |-> deserialize_f32(j.items[i])]

\* #[derive(Deserialize)] of Atom
is_atom(j) ==
    /\ j.json = "object"
    /\ CASE j.key = "Solid" -> is_vec(j.value, 4)
         [] j.key = "Gas" ->
                /\ j.value.json = "array"
                /\ Len(j.value.items) = 2
                /\ is_f32(j.value.items[1])
                /\ is_vec(j.value.items[2], 3)
         [] j.key = "GasSource" -> is_vec(j.value, 3)
         [] OTHER -> FALSE

deserialize_atom(j) ==
    CASE j.key = "Solid" -> Solid(deserialize_vec(j.value))
      [] j.key = "Gas" ->
             Gas(deserialize_f32(j.value.items[1]), deserialize_vec(j.value.items[2]))
      [] j.key = "GasSource" -> GasSource(deserialize_vec(j.value))

\* Vec<Vec<Vec<Atom>>> is read from arrays of any lengths.
is_atoms(j) ==
    /\ j.json = "array"
    /\ \A i \in 1..Len(j.items) :
           /\ j.items[i].json = "array"
           /\ \A k \in 1..Len(j.items[i].items) :
                  /\ j.items[i].items[k].json = "array"
                  /\ \A l \in 1..Len(j.items[i].items[k].items) :
                         is_atom(j.items[i].items[k].items[l])

deserialize_atoms(j) ==
    [x \in 0..(Len(j.items) - 1) |->
        [y \in 0..(Len(j.items[x + 1].items) - 1) |->
            [z \in 0..(Len(j.items[x + 1].items[y + 1].items) - 1) |->
                deserialize_atom(j.items[x + 1].items[y + 1].items[z + 1])]]]

\* The save file as Grid::load meets it: missing, present but unreadable,
\* or readable with contents that are not JSON, JSON of another type, or
\* the JSON Grid::save writes for a nested array of atoms.
Missing == [status |-> "missing"]

Unreadable == [status |-> "unreadable"]

NotJson == [status |-> "readable", json |-> FALSE]

Readable(value) == [status |-> "readable", json |-> TRUE, value |-> value]

OtherJson == Readable(JsonObject("atoms", JsonArray(<<>>)))

Saved(a) == Readable(to_string(a))

Ok(value) == [ok |-> TRUE, value |-> value]

Err(why) == [ok |-> FALSE, why |-> why]

\* fn load_inner() of Grid::load
load_inner(f) ==
    IF f.status = "missing" THEN Err("File::open")
    ELSE IF f.status = "unreadable" THEN Err("read_to_string")
    ELSE IF ~f.json THEN Err("serde_json syntax")
    ELSE IF ~is_atoms(f.value) THEN Err("serde_json data")
    ELSE Ok(deserialize_atoms(f.value))

\* A mutant of load: only a missing file gives the default grid, any other
\* failure a grid of pressure-0 Gas.
load_default_if_missing(f) ==
    LET r == load_inner(f)
    IN  IF r.ok THEN r.value
        ELSE IF f.status = "missing" THEN default_atoms
        ELSE filled(GasZero)

\* Grid::load: the atoms it stores.
load(f) ==
    LET r == load_inner(f)
    IN  IF r.ok THEN r.value ELSE default_atoms

\* Grid::save: what File::create and write_all leave on disk and whether
\* an expect panics.  io is how far the writing gets.
save(a, old_file, io) ==
    CASE io = "create fails" ->
             [file |-> old_file, panic |-> "Failed to create file"]
      [] io = "write fails" ->
             [file |-> NotJson, panic |-> "Failed to write to file"]
      [] io = "written" -> [file |-> Saved(a), panic |-> "none"]

-----------------------------------------------------------------------------
(* Grid2d::atoms_on_path                                                   *)

\* The side of the 2D grid; modify_under_path clamps both ends of a path
\* to 0..GRID_SIZE-1.
GRID_SIZE == 4

\* The loop of atoms_on_path: one step of the mover towards end along the
\* axis of the greater distance (the y axis when the distances are equal),
\* pushed on the path, until the mover is at end.
RECURSIVE path_loop(_, _, _)
path_loop(path, mover, end) ==
    IF mover = end THEN path
    ELSE LET moved ==
                 IF Abs(mover[1] - end[1]) > Abs(mover[2] - end[2])
                 THEN IF mover[1] < end[1]
                      THEN <<mover[1] + 1, mover[2]>>
                      ELSE <<mover[1] - 1, mover[2]>>
                 ELSE IF mover[2] < end[2]
                      THEN <<mover[1], mover[2] + 1>>
                      ELSE <<mover[1], mover[2] - 1>>
         IN  path_loop(Append(path, moved), moved, end)

\* A mutant of atoms_on_path: the start is not pushed before the loop.
atoms_on_path_without_start(start, end) == path_loop(<<>>, start, end)

\* Grid2d::atoms_on_path.  The casts to i32 and back to usize keep the
\* value of every coordinate below 2^31, and the mover stays between the
\* coordinates of start and end.
atoms_on_path(start, end) == path_loop(<<start>>, start, end)

-----------------------------------------------------------------------------
(* The selection of Editor::update.                                        *)

None == <<>>

Some(x) == <<x>>

QHalf == Q(1, 2)

\* Vec3 of rationals from a UVec3 (as_vec3) and the squared distance.
as_vec3(pos) == <<QInt(pos[1]), QInt(pos[2]), QInt(pos[3])>>

distance_squared(a, b) ==
    LET d == VAdd(a, VScale(b, QInt(-1)))
    IN  length_squared(d)

\* f32 as usize of a non-NaN value: truncation, with negatives cast to 0.
as_usize(q) == IF q[1] < 0 THEN 0 ELSE q[1] \div q[2]

as_usizevec3(v) == <<as_usize(v[1]), as_usize(v[2]), as_usize(v[3])>>

\* The six unit steps in the order of the candidates array of adjacent_atom.
Steps ==
    <<<<-1, 0, 0>>, <<1, 0, 0>>, <<0, -1, 0>>, <<0, 1, 0>>, <<0, 0, -1>>, <<0, 0, 1>>>>

\* fn adjacent_atom(origin_atom, nearby_pos): the candidate nearest to
\* nearby_pos, the first of them in array order when several are (the sort
\* is stable).
adjacent_atom(origin_atom, nearby_pos) ==
    LET origin == VAdd(as_vec3(origin_atom), <<QHalf, QHalf, QHalf>>)
        candidates == [i \in 1..6 |-> VAdd(origin, as_vec3(Steps[i]))]
        dist(i) == distance_squared(nearby_pos, candidates[i])
        closest == CHOOSE i \in 1..6 :
                       /\ \A j \in 1..6 : QLeq(dist(i), dist(j))
                       /\ \A j \in 1..(i - 1) : QLess(dist(i), dist(j))
    IN  as_usizevec3(candidates[closest])

\* The filter selectable_positions of Editor::update.
selectable(a, pos) ==
    LET atom == at(a, pos)
    IN  IF IsGas(atom) THEN QLess(Q(1, 10), atom.p) ELSE TRUE

\* A mouse ray is modelled when it runs along an axis through the middle
\* of a row of cells: axis is 1, 2 or 3, row the two other coordinates of
\* the cells in axis order, dir the direction of travel (1 or -1).
\* The cells of the ray, in the order the ray meets them.
ray_cells(a, ray) ==
    LET n == CASE ray.axis = 1 -> VecLen(a)
               [] ray.axis = 2 -> VecLen(a[0])
               [] ray.axis = 3 -> VecLen(a[0][0])
        k(i) == IF ray.dir = 1 THEN i - 1 ELSE n - i
    IN  [i \in 1..n |->
            CASE ray.axis = 1 -> <<k(i), ray.row[1], ray.row[2]>>
              [] ray.axis = 2 -> <<ray.row[1], k(i), ray.row[2]>>
              [] ray.axis = 3 -> <<ray.row[1], ray.row[2], k(i)>>]

\* closest_ray_grid_intersection over the selectable positions: None, or
\* the first selectable cell on the ray with the point where the ray enters
\* it, the middle of the face towards the ray's origin.
closest_ray_grid_intersection(a, ray) ==
    LET hits == SelectSeq(ray_cells(a, ray), LAMBDA pos : selectable(a, pos))
        atom == hits[1]
        face == [i \in 1..3 |-> IF i = ray.axis THEN Q(1 - ray.dir, 2) ELSE QHalf]
    IN  IF hits = <<>> THEN None
        ELSE Some(<<atom, VAdd(as_vec3(atom), <<face[1], face[2], face[3]>>)>>)

\* The atom an add stores for the selected type.
new_atom(selected) ==
    CASE selected = "Solid" -> Solid(Grey)
      [] selected = "Gas" -> Gas(QOne, VZero)
      [] selected = "GasSource" -> GasSource(V3(100, 0, 0))

-----------------------------------------------------------------------------
(* The 2D grid: Grid2d of src/src/grid/grid2d.rs and Game of               *)
(* src/src/game.rs.  enum Atom2d { Gas(f32), Solid, Liquid }; game.rs      *)
(* writes the same three variants under the name Atom.                     *)

Atom2dGas(p) == [tag |-> "Gas", p |-> p]

Atom2dSolid == [tag |-> "Solid"]

Atom2dLiquid == [tag |-> "Liquid"]

\* vec![vec![Atom2d::default(); GRID_SIZE]; GRID_SIZE]
new_atoms_2d ==
    [x \in 0..(GRID_SIZE - 1) |-> [y \in 0..(GRID_SIZE - 1) |-> Atom2dGas(QZero)]]

\* A mutant of clamp_as_usize: the upper bound of the clamp is GRID_SIZE.
clamp_as_usize_to_size(q) ==
    IF q[2] = 0 THEN (IF q[1] < 0 THEN 0 ELSE GRID_SIZE)
    ELSE IF QLess(q, QZero) THEN 0
    ELSE IF QLess(QInt(GRID_SIZE), q) THEN GRID_SIZE
    ELSE as_usize(q)

\* q.clamp(0.0, GRID_SIZE as f32 - 1.0) as usize, for a finite or infinite q.
clamp_as_usize(q) ==
    IF q[2] = 0 THEN (IF q[1] < 0 THEN 0 ELSE GRID_SIZE - 1)
    ELSE IF QLess(q, QZero) THEN 0
    ELSE IF QLess(QInt(GRID_SIZE - 1), q) THEN GRID_SIZE - 1
    ELSE as_usize(q)

\* The pair of clamped and truncated coordinates of a point of grid space.
clamp_cell(pos) == <<clamp_as_usize(pos[1]), clamp_as_usize(pos[2])>>

\* self.atoms[x][y] = atom for each (x, y) of the path in turn; an index
\* outside a Vec panics.
RECURSIVE write_path(_, _, _, _)
write_path(a, path, i, atom) ==
    IF i > Len(path) THEN Done(a)
    ELSE LET x == path[i][1]
             y == path[i][2]
         IN  IF x \notin DOMAIN a \/ y \notin DOMAIN a[x]
             THEN [atoms |-> a, panic |-> "index out of bounds"]
             ELSE write_path([a EXCEPT ![x][y] = atom], path, i + 1, atom)

\* transform_2d(pos, self.transform.inverse()) for the transform of
\* Grid2d::new: a scale by 0.1 (and a translation along z).
grid2d_inverse(pos) ==
    <<IF is_finite(pos[1]) THEN QMul(pos[1], QInt(10)) ELSE pos[1],
      IF is_finite(pos[2]) THEN QMul(pos[2], QInt(10)) ELSE pos[2]>>

\* The cells Grid2d::modify_under_path writes, in order.
cells_under_path(start, end) ==
    atoms_on_path(clamp_cell(grid2d_inverse(start)), clamp_cell(grid2d_inverse(end)))

\* Grid2d::modify_under_path.
modify_under_path(a, start, end, atom_to_write) ==
    write_path(a, cells_under_path(start, end), 1, atom_to_write)

\* The aspect ratio Game::new is given.
aspect_ratio == <<3, 2>>

\* transform_2d(pos, self.transform.inverse()) for the transform of
\* Game::new: a scale by (0.05 / aspect_ratio, 0.05) followed by a
\* translation by (-0.9, -0.9).
game_inverse(pos) ==
    <<QMul(QMul(QAdd(pos[1], <<9, 10>>), QInt(20)), aspect_ratio),
      QMul(QAdd(pos[2], <<9, 10>>), QInt(20))>>

\* The cell of the grid a mouse position is clamped into.
game_cell(pos) == clamp_cell(game_inverse(pos))

\* The closure modify_grid_under_path of Game::update_and_render_grid.
modify_grid_under_path(g, start, end, atom) ==
    write_path(g, atoms_on_path(game_cell(start), game_cell(end)), 1, atom)

\* enum Event of src/src/events.rs.
Event(kind, pos) == [kind |-> kind, pos |-> pos]

\* A mutant of handle_event: a MousePos writes from its own position when no
\* drag is in progress.
handle_event_always_draws(g, drag, event, atom) ==
    CASE event.kind = "MousePos" ->
             LET r == modify_grid_under_path(
                          g, IF drag # None THEN drag[1] ELSE event.pos,
                          event.pos, atom)
             IN  [grid |-> r.atoms, panic |-> r.panic, dragging_pos |-> drag]
      [] event.kind = "LeftClickPressed" ->
             LET r == modify_grid_under_path(g, event.pos, event.pos, atom)
             IN  [grid |-> r.atoms, panic |-> r.panic,
                  dragging_pos |-> Some(event.pos)]
      [] event.kind = "LeftClickReleased" ->
             [grid |-> g, panic |-> "none", dragging_pos |-> None]

\* One call of the closure events.retain runs in
\* Game::update_and_render_grid: the grid and dragging_pos after the event.
handle_event(g, drag, event, atom) ==
    CASE event.kind = "MousePos" ->
             IF drag # None
             THEN LET r == modify_grid_under_path(g, drag[1], event.pos, atom)
                  IN  [grid |-> r.atoms, panic |-> r.panic,
                       dragging_pos |-> Some(event.pos)]
             ELSE [grid |-> g, panic |-> "none", dragging_pos |-> drag]
      [] event.kind = "LeftClickPressed" ->
             LET r == modify_grid_under_path(g, event.pos, event.pos, atom)
             IN  [grid |-> r.atoms, panic |-> r.panic,
                  dragging_pos |-> Some(event.pos)]
      [] event.kind = "LeftClickReleased" ->
             [grid |-> g, panic |-> "none", dragging_pos |-> None]

\* Game::load_grid: the grid of a readable file, or a new grid.
load_grid(saved) == IF saved.status = "readable" THEN saved.value ELSE new_atoms_2d

\* EventMgr::begin_frame on the two queues.
begin_frame(this_frame, next_frame, debug) ==
    IF debug /\ this_frame # <<>>
    THEN [this_frame |-> this_frame, next_frame |-> next_frame,
          panic |-> "assert events_for_this_frame.is_empty()"]
    \* after the swap events_for_next_frame holds what this_frame held
    ELSE IF debug /\ this_frame # <<>>
    THEN [this_frame |-> next_frame, next_frame |-> this_frame,
          panic |-> "assert events_for_next_frame.is_empty()"]
    ELSE [this_frame |-> next_frame, next_frame |-> this_frame,
          panic |-> "none"]

-----------------------------------------------------------------------------
(* State.                                                                  *)

VARIABLES
    atoms,             \* Grid.atoms
    step_counter,      \* Grid.step_counter
    debug_assertions,  \* whether the build compiles debug_assert in
    pc,                \* what the single thread does next
    panic,             \* "none", or why the process aborted
    in_update,         \* whether the running step() was called by Editor::update
    entry,             \* [atoms, step_counter] on entry to the running step(),
                       \* and the alignment averaged last before it
    pre,               \* atoms on entry to the phase that ran last
    ran,               \* the phases the running step() has completed
    blocks,            \* the section origins its spread_gas averaged
    steps_taken,       \* number of step() calls begun
    edits_done,        \* number of add / remove edits made
    highlighted_atom,  \* Editor.highlighted_atom: <<>> for None, <<pos>> for Some
    proposed_atom,     \* Editor.proposed_atom
    should_add_atom,   \* locals of Editor::update
    should_remove_atom,
    is_playing,        \* Global
    should_step,
    selected_atom_type,
    file,              \* nopush/grid_save.json as Grid::load finds it
    call,              \* the last call made to a pure function, with its result
    events_for_this_frame,  \* EventMgr
    events_for_next_frame,
    grid,              \* Game.grid
    dragging_pos,      \* Game.dragging_pos
    events,            \* the events Game::update_and_render_grid has yet to see
    current_atom,      \* EditorState.current_atom of the running call
    handled            \* the kinds of the events it has handled so far

grid_vars == <<atoms, step_counter, debug_assertions, pc, panic, in_update,
               entry, pre, ran, blocks, steps_taken>>

editor_vars == <<edits_done, highlighted_atom, proposed_atom, should_add_atom,
                 should_remove_atom, is_playing, should_step, selected_atom_type>>

game_vars == <<events_for_this_frame, events_for_next_frame, grid,
               dragging_pos, events, current_atom, handled>>

fn_vars == <<file, call, game_vars>>

vars == <<grid_vars, editor_vars, fn_vars>>

-----------------------------------------------------------------------------
(* Grid::step, one action per call it makes.                               *)

\* A mutant of after_phase: spread_gas is called before step_gas_source.
after_phase_spread_first(phase) ==
    CASE phase = "enter" -> "simulate_gas_velocity"
      [] phase = "simulate_gas_velocity" -> "spread_gas"
      [] phase = "spread_gas" -> "step_gas_source"
      [] phase = "step_gas_source" -> "apply_edge_vacuum"
      [] phase = "apply_edge_vacuum" -> "increment"

\* The statement of Grid::step that follows a call it makes.
after_phase(phase) ==
    CASE phase = "enter" -> "simulate_gas_velocity"
      [] phase = "simulate_gas_velocity" -> "step_gas_source"
      [] phase = "step_gas_source" -> "spread_gas"
      [] phase = "spread_gas" -> "apply_edge_vacuum"
      [] phase = "apply_edge_vacuum" -> "increment"

\* A phase of step() returned r, or aborted the process.
Continue(r, phase) ==
    /\ pre' = atoms
    /\ atoms' = r.atoms
    /\ panic' = r.panic
    /\ IF r.panic = "none"
       THEN pc' = after_phase(phase) /\ ran' = Append(ran, phase)
       ELSE pc' = "aborted" /\ ran' = ran

\* The alignment of the blocks averaged by the most recent call of step()
\* that averaged any, given the record of the calls before the last one and
\* the blocks of the last one.
last_spread(earlier, last_blocks) ==
    IF last_blocks = <<>> THEN earlier
    ELSE IF last_blocks[1][1] % 2 = 0 THEN "even"
    ELSE "odd"

\* step() is entered.
StepEnter(from_update) ==
    /\ pc' = after_phase("enter")
    /\ in_update' = from_update
    /\ entry' = [atoms |-> atoms, step_counter |-> step_counter,
                 spread |-> last_spread(entry.spread, blocks)]
    /\ ran' = <<>>
    /\ blocks' = <<>>
    /\ steps_taken' = steps_taken + 1
    /\ UNCHANGED <<atoms, step_counter, debug_assertions, panic, pre>>

\* self.simulate_gas_velocity();
SimulateGasVelocity ==
    /\ pc = "simulate_gas_velocity"
    /\ Continue(simulate_gas_velocity(atoms, debug_assertions),
                "simulate_gas_velocity")
    /\ UNCHANGED <<step_counter, debug_assertions, in_update, entry, blocks,
                   steps_taken, editor_vars, fn_vars>>

\* self.step_gas_source();
StepGasSource ==
    /\ pc = "step_gas_source"
    /\ Continue(step_gas_source(atoms, debug_assertions),
                "step_gas_source")
    /\ UNCHANGED <<step_counter, debug_assertions, in_update, entry, blocks,
                   steps_taken, editor_vars, fn_vars>>

\* self.spread_gas();
SpreadGas ==
    /\ pc = "spread_gas"
    /\ Continue(spread_gas(atoms, step_counter, debug_assertions),
                "spread_gas")
    /\ blocks' = spread_blocks(step_counter)
    /\ UNCHANGED <<step_counter, debug_assertions, in_update, entry,
                   steps_taken, editor_vars, fn_vars>>

\* self.apply_edge_vacuum();
ApplyEdgeVacuum ==
    /\ pc = "apply_edge_vacuum"
    /\ Continue(apply_edge_vacuum(atoms), "apply_edge_vacuum")
    /\ UNCHANGED <<step_counter, debug_assertions, in_update, entry, blocks,
                   steps_taken, editor_vars, fn_vars>>

\* self.step_counter = self.step_counter.wrapping_add(1); and step() returns,
\* into Editor::update when that called it.
Increment ==
    /\ pc = "increment"
    /\ step_counter' = wrapping_add_1(step_counter)
    /\ pc' = IF in_update THEN "select" ELSE "idle"
    /\ UNCHANGED <<atoms, debug_assertions, panic, in_update, entry, pre, ran,
                   blocks, steps_taken, editor_vars, fn_vars>>

-----------------------------------------------------------------------------
(* SpecGrid: Grid::step on a family of grids, at any value of the counter. *)

\* A GasSource pointing along +x at (2,2,2), next to the Gas cell (3,2,2).
source_scene == at_mut(filled(GasZero), <<2, 2, 2>>, GasSource(V3(1, 0, 0)))

\* Gas at pressure 8 in (1,1,1), pressure 0 elsewhere.
pressure_scene == at_mut(filled(GasZero), <<1, 1, 1>>, Gas(QInt(8), VZero))

\* A section with all three variants and gases at rest and in slow motion.
mixed_scene ==
    LET slow == <<Q(1, 50), QZero, Q(-1, 100)>>
        a1 == at_mut(default_atoms, <<2, 2, 2>>, Gas(QInt(5), slow))
        a2 == at_mut(a1, <<2, 3, 3>>, Gas(QInt(2), VZero))
        a3 == at_mut(a2, <<3, 3, 2>>, Solid(Red))
        a4 == at_mut(a3, <<0, 3, 2>>, Solid(Blue))
    IN  at_mut(a4, <<3, 2, 3>>, GasSource(V3(0, 0, -1)))

\* Gases in motion: two that swap cells, a third with the same destination
\* as one of them, and one that runs into a Solid.
flow_scene ==
    LET a1 == at_mut(default_atoms, <<2, 2, 2>>, Gas(QInt(2), V3(1, 0, 0)))
        a2 == at_mut(a1, <<3, 2, 2>>, Gas(QOne, V3(-1, 0, 0)))
        a3 == at_mut(a2, <<2, 2, 3>>, Gas(QInt(5), V3(0, 0, -1)))
    IN  at_mut(a3, <<4, 4, 3>>, Gas(QInt(3), V3(0, 0, 2)))

Scenes == {default_atoms, source_scene, pressure_scene, mixed_scene, flow_scene}

\* Cells at a corner, on an edge, inside two faces, and in the interior.
ProbeCells ==
    {<<0, 0, 0>>, <<0, 0, 3>>, <<0, 2, 3>>, <<5, 3, 3>>,
     <<3, 2, 2>>, <<4, 2, 2>>, <<1, 2, 2>>}

ProbeAtoms ==
    {GasZero,
     Gas(QInt(3), V3(1, 0, 0)),
     Gas(QInt(2), V3(-1, 0, 0)),
     Gas(QInt(4), V3(0, 0, 0)),
     Solid(Grey),
     GasSource(V3(1, 0, 0)),
     GasSource(V3(-2, 1, 0)),
     GasSource(V3(1, 1, 0))}

InitCommon ==
    /\ pc = "idle"
    /\ panic = "none"
    /\ in_update = FALSE
    /\ entry = [atoms |-> atoms, step_counter |-> step_counter, spread |-> "none"]
    /\ pre = atoms
    /\ ran = <<>>
    /\ blocks = <<>>
    /\ steps_taken = 0
    /\ edits_done = 0
    /\ highlighted_atom = None
    /\ proposed_atom = None
    /\ should_add_atom = FALSE
    /\ should_remove_atom = FALSE
    /\ is_playing = FALSE
    /\ should_step = FALSE
    /\ selected_atom_type = "Solid"
    /\ file = [status |-> "missing"]
    /\ call = [fn |-> "none"]
    /\ events_for_this_frame = <<>>
    /\ events_for_next_frame = <<>>
    /\ grid = new_atoms_2d
    /\ dragging_pos = None
    /\ events = <<>>
    /\ current_atom = Atom2dGas(QZero)
    /\ handled = <<>>

\* One counter value of each residue mod 2 * SPREAD_FREQUENCY, and the largest.
InitCounters == (0..(2 * SPREAD_FREQUENCY - 1)) \cup {CounterMod - 1}

InitGrid ==
    /\ \E scene \in Scenes, cell \in ProbeCells, atom \in ProbeAtoms :
           atoms = at_mut(scene, cell, atom)
    /\ step_counter \in InitCounters
    /\ debug_assertions \in BOOLEAN
    /\ InitCommon

\* A caller runs grid.step().
StepGrid ==
    /\ pc = "idle"
    /\ steps_taken < MaxSteps
    /\ StepEnter(FALSE)
    /\ UNCHANGED <<editor_vars, fn_vars>>

NextGrid ==
    \/ StepGrid
    \/ SimulateGasVelocity
    \/ StepGasSource
    \/ SpreadGas
    \/ ApplyEdgeVacuum
    \/ Increment

SpecGrid == InitGrid /\ [][NextGrid]_vars

-----------------------------------------------------------------------------
(* A run of consecutive calls of Grid::step (SpecRun).                     *)

\* The number of consecutive calls.
MaxRun == 5

\* The counter values a run starts from: the residues and the last two
\* values before the wrap.
RunCounters == InitCounters \cup {CounterMod - 2}

InitRun ==
    /\ atoms \in {default_atoms, pressure_scene}
    /\ step_counter \in RunCounters
    /\ debug_assertions \in BOOLEAN
    /\ InitCommon

\* A caller runs grid.step() again.
StepRun ==
    /\ pc = "idle"
    /\ steps_taken < MaxRun
    /\ StepEnter(FALSE)
    /\ UNCHANGED <<editor_vars, fn_vars>>

NextRun ==
    \/ StepRun
    \/ SimulateGasVelocity
    \/ StepGasSource
    \/ SpreadGas
    \/ ApplyEdgeVacuum
    \/ Increment

SpecRun == InitRun /\ [][NextRun]_vars

-----------------------------------------------------------------------------
(* Spec: the editor's frames on the grid Grid::load falls back to.         *)

AtomTypes == {"Solid", "Gas", "GasSource"}

\* The rows of cells the modelled mouse rays run through.
RayRows == {<<1, 1>>}

\* The axes they run along.
RayAxes == {1}

Rays == [axis : RayAxes, row : RayRows, dir : {1, -1}]

\* The frame with the test of the two flags left out: the grid is stepped in
\* every frame.
update_begin_always_steps(clicks, max_edits, max_play) ==
    /\ pc = "idle"
    /\ \E left, right, play, step_once \in BOOLEAN :
           /\ <<left, right>> \in clicks
           /\ (left \/ right) => edits_done < max_edits
           /\ steps_taken < max_play
           /\ should_add_atom' = left
           /\ should_remove_atom' = right
           /\ is_playing' = play
           /\ should_step' = step_once
           /\ edits_done' = IF left \/ right THEN edits_done + 1 ELSE edits_done
           /\ StepEnter(TRUE)
    /\ UNCHANGED <<highlighted_atom, proposed_atom, selected_atom_type, fn_vars>>

\* Editor::update up to its call of grid.step(): the click events are taken
\* off the queue and the two flags of Global are read.
update_begin(clicks, max_edits, max_play) ==
    /\ pc = "idle"
    /\ \E left, right, play, step_once \in BOOLEAN :
           /\ <<left, right>> \in clicks
           /\ (left \/ right) => edits_done < max_edits
           /\ (play \/ step_once) => steps_taken < max_play
           /\ should_add_atom' = left
           /\ should_remove_atom' = right
           /\ is_playing' = play
           /\ should_step' = step_once
           /\ edits_done' = IF left \/ right THEN edits_done + 1 ELSE edits_done
           /\ IF play \/ step_once
              THEN StepEnter(TRUE)
              ELSE /\ pc' = "select"
                   /\ in_update' = TRUE
                   /\ UNCHANGED <<atoms, step_counter, debug_assertions, panic,
                                  entry, pre, ran, blocks, steps_taken>>
    /\ UNCHANGED <<highlighted_atom, proposed_atom, selected_atom_type, fn_vars>>

\* A frame of the editor with any clicks.
UpdateBegin == update_begin(BOOLEAN \X BOOLEAN, MaxEdits, MaxPlay)

\* The selection of Editor::update for the mouse ray of this frame.
selection_of(a, mouse) ==
    IF mouse = None THEN None ELSE closest_ray_grid_intersection(a, mouse[1])

highlighted_of(selection) ==
    IF selection = None THEN None ELSE Some(selection[1][1])

proposed_of(selection) ==
    IF selection = None THEN None
    ELSE LET adjacent == adjacent_atom(selection[1][1], selection[1][2])
         IN  IF Some(adjacent) = highlighted_of(selection) THEN None
             ELSE Some(adjacent)

\* *grid.at_mut(position) = atom; indexing outside the Vecs panics.
store(a, position, atom) ==
    IF InBounds(a, position) THEN Done(at_mut(a, position, atom))
    ELSE Abort(a, "index out of bounds")

\* A mutant of edit: when the add finds no proposed position, a remove
\* clicked in the same frame is carried out.
edit_falls_back_to_remove(a, add, remove, highlighted, proposed, selected) ==
    IF add /\ proposed # None THEN store(a, proposed[1], new_atom(selected))
    ELSE IF remove /\ highlighted # None THEN store(a, highlighted[1], GasZero)
    ELSE Done(a)

\* The add and the remove at the end of Editor::update.
edit(a, add, remove, highlighted, proposed, selected) ==
    IF add
    THEN IF proposed # None THEN store(a, proposed[1], new_atom(selected))
         ELSE Done(a)
    ELSE IF remove /\ highlighted # None THEN store(a, highlighted[1], GasZero)
    ELSE Done(a)

\* Editor::update after grid.step(): the selection, then the add or remove;
\* the two locals of update end with it, and so does the record of the
\* step this update ran.
select_and_edit(rays, types) ==
    /\ pc = "select"
    /\ \E mouse \in {None} \cup {Some(ray) : ray \in rays},
          selected \in (IF should_add_atom THEN types
                        ELSE {selected_atom_type}) :
           LET selection == selection_of(atoms, mouse)
               r == edit(atoms, should_add_atom, should_remove_atom,
                         highlighted_of(selection), proposed_of(selection),
                         selected)
           IN  /\ highlighted_atom' = highlighted_of(selection)
               /\ proposed_atom' = proposed_of(selection)
               /\ selected_atom_type' = selected
               /\ atoms' = r.atoms
               /\ panic' = r.panic
               /\ pc' = IF r.panic = "none" THEN "idle" ELSE "aborted"
    /\ in_update' = FALSE
    /\ should_add_atom' = FALSE
    /\ should_remove_atom' = FALSE
    /\ entry' = [atoms |-> atoms', step_counter |-> step_counter,
                 spread |-> last_spread(entry.spread, blocks)]
    /\ pre' = atoms'
    /\ ran' = <<>>
    /\ blocks' = <<>>
    /\ UNCHANGED <<step_counter, debug_assertions, steps_taken, edits_done,
                   is_playing, should_step, fn_vars>>

SelectAndEdit == select_and_edit(Rays, AtomTypes)

Init ==
    /\ atoms = default_atoms
    /\ step_counter = 0
    /\ debug_assertions \in BOOLEAN
    /\ InitCommon

Next ==
    \/ UpdateBegin
    \/ SimulateGasVelocity
    \/ StepGasSource
    \/ SpreadGas
    \/ ApplyEdgeVacuum
    \/ Increment
    \/ SelectAndEdit

Spec == Init /\ [][Next]_vars

-----------------------------------------------------------------------------
(* The editor building with Solids in the corner of the grid (SpecBuild).  *)

\* Number of left clicks a behaviour of SpecBuild may make.
MaxBuild == 7

\* The mouse rays of one session, click by click: each comes from outside
\* the grid, meets a Solid with coordinates 0 and 1 on its outward face and
\* proposes the cell before it.
BuildPlan ==
    <<[axis |-> 1, row |-> <<1, 1>>, dir |-> 1],
      [axis |-> 2, row |-> <<1, 1>>, dir |-> 1],
      [axis |-> 3, row |-> <<1, 1>>, dir |-> 1],
      [axis |-> 2, row |-> <<0, 1>>, dir |-> 1],
      [axis |-> 3, row |-> <<0, 1>>, dir |-> 1],
      [axis |-> 3, row |-> <<1, 0>>, dir |-> 1],
      [axis |-> 3, row |-> <<0, 0>>, dir |-> 1]>>

\* The ray of the frame that consumes the n-th click, and of the frames
\* after it.
BuildRays(n) == {BuildPlan[(((IF n = 0 THEN 1 ELSE n) - 1) % Len(BuildPlan)) + 1]}

\* A frame with a left click or none.
BuildBegin == update_begin({<<FALSE, FALSE>>, <<TRUE, FALSE>>}, MaxBuild, MaxSteps)

\* The selected atom type is Solid.
BuildEdit == select_and_edit(BuildRays(edits_done), {"Solid"})

NextBuild ==
    \/ BuildBegin
    \/ SimulateGasVelocity
    \/ StepGasSource
    \/ SpreadGas
    \/ ApplyEdgeVacuum
    \/ Increment
    \/ BuildEdit

SpecBuild == Init /\ [][NextBuild]_vars

-----------------------------------------------------------------------------
(* SpecGas: frames of the editor that put gas and gas sources into the     *)
(* interior of the default grid and step it.                               *)

MaxGasEdits == 2

MaxGasPlay == 2

\* The mouse rays of the successive edits: down the y axis onto the Solid at
\* (1, 1, SIZE-2), which proposes (1, 2, SIZE-2), and up the x axis onto the
\* Solid at (SIZE-2, SIZE-2, SIZE-2), which proposes (SIZE-3, SIZE-2, SIZE-2).
GasPlan ==
    <<[axis |-> 2, row |-> <<1, SIZE - 2>>, dir |-> -1],
      [axis |-> 1, row |-> <<SIZE - 2, SIZE - 2>>, dir |-> 1]>>

GasRays(n) == {GasPlan[(((IF n = 0 THEN 1 ELSE n) - 1) % Len(GasPlan)) + 1]}

GasBegin ==
    update_begin({<<FALSE, FALSE>>, <<TRUE, FALSE>>, <<FALSE, TRUE>>},
                 MaxGasEdits, MaxGasPlay)

GasEdit == select_and_edit(GasRays(edits_done), {"Gas", "GasSource"})

NextGas ==
    \/ GasBegin
    \/ SimulateGasVelocity
    \/ StepGasSource
    \/ SpreadGas
    \/ ApplyEdgeVacuum
    \/ Increment
    \/ GasEdit

SpecGas == Init /\ [][NextGas]_vars

-----------------------------------------------------------------------------
(* SpecClick: frames of the editor with left and right clicks along one    *)
(* mouse ray, which meets the grid on its face x = 0.                      *)

MaxClicks == 2

\* The ray up the x axis through the row (y, z) = (1, 1): it meets the
\* default Solid at (1, 1, 1), and a Solid added at (0, 1, 1) on the face of
\* the grid, where adjacent_atom saturates onto the highlighted cell.
ClickRays == {[axis |-> 1, row |-> <<1, 1>>, dir |-> 1]}

ClickBegin == update_begin(BOOLEAN \X BOOLEAN, MaxClicks, MaxSteps)

ClickEdit == select_and_edit(ClickRays, {"Solid", "Gas"})

NextClick ==
    \/ ClickBegin
    \/ SimulateGasVelocity
    \/ StepGasSource
    \/ SpreadGas
    \/ ApplyEdgeVacuum
    \/ Increment
    \/ ClickEdit

SpecClick == Init /\ [][NextClick]_vars

-----------------------------------------------------------------------------
(* SpecFn: single calls of sum_gas, of the averaging closure of spread_gas *)
(* and of Grid::load.                                                      *)

GasPressures == {QZero, QOne, Q(3, 2), QInt(-2)}

GasVelocities == {VZero, V3(1, 0, 0), <<Q(1, 2), QInt(-2), QInt(3)>>}

GasArgs == [p : GasPressures, v : GasVelocities]

\* What a cell of the averaged block holds.
Palette ==
    <<Solid(Grey), Gas(QOne, V3(1, 0, 0)), Gas(QInt(3), <<QZero, Q(-1, 2), QZero>>)>>

\* The origins of an even block and of an odd block.
BlockOrigins == {<<2, 2, 2>>, <<3, 3, 3>>}

\* The grid of pressure-0 Gas whose block at pos holds Palette[f[i]] in its
\* i-th cell.
block_grid(pos, f) ==
    LET c == cells_2x2x2(pos)
    IN  [filled(GasZero) EXCEPT ![c[1][1]][c[1][2]][c[1][3]] = Palette[f[1]],
                                ![c[2][1]][c[2][2]][c[2][3]] = Palette[f[2]],
                                ![c[3][1]][c[3][2]][c[3][3]] = Palette[f[3]],
                                ![c[4][1]][c[4][2]][c[4][3]] = Palette[f[4]],
                                ![c[5][1]][c[5][2]][c[5][3]] = Palette[f[5]],
                                ![c[6][1]][c[6][2]][c[6][3]] = Palette[f[6]],
                                ![c[7][1]][c[7][2]][c[7][3]] = Palette[f[7]],
                                ![c[8][1]][c[8][2]][c[8][3]] = Palette[f[8]]]

InitFn ==
    /\ atoms = filled(GasZero)
    /\ step_counter = 0
    /\ debug_assertions \in BOOLEAN
    /\ InitCommon

CallSumGas ==
    /\ call.fn = "none"
    /\ \E a, b \in GasArgs :
           call' = [fn |-> "sum_gas", a |-> a, b |-> b, result |-> sum_gas(a, b)]
    /\ UNCHANGED <<grid_vars, editor_vars, file, game_vars>>

CallReachLocalEquilibrium ==
    /\ call.fn = "none"
    /\ \E pos \in BlockOrigins, f \in [1..8 -> 1..Len(Palette)] :
           LET before == block_grid(pos, f)
               r == reach_local_equilibrium(Done(before), pos, debug_assertions)
           IN  /\ call' = [fn |-> "reach_local_equilibrium", pos |-> pos,
                           before |-> before]
               /\ atoms' = r.atoms
               /\ panic' = r.panic
    /\ UNCHANGED <<step_counter, debug_assertions, pc, in_update, entry, pre,
                   ran, blocks, steps_taken, editor_vars, file,
                   game_vars>>

\* The grids a save file can hold: of this build's shape, of another
\* shape, and with rows of unequal length.
SavedGrids ==
    {default_atoms, source_scene,
     [x \in 0..1 |-> [y \in 0..1 |-> [z \in 0..1 |-> GasZero]]],
     [x \in 0..1 |-> [y \in 0..x |-> [z \in 0..(x + y) |-> GasZero]]]}

\* The JSON of the default grid with the pressure of (2,2,2) written as a
\* decimal beyond f32::MAX, and the empty array.
OtherArrays ==
    {[to_string(default_atoms) EXCEPT
          !.items[3].items[3].items[3] =
              JsonObject("Gas", JsonArray(<<JsonLargeNumber(1), serialize_vec(VZero)>>))],
     JsonArray(<<>>)}

Files ==
    {Missing, Unreadable, NotJson, OtherJson}
        \cup {Saved(a) : a \in SavedGrids}
        \cup {Readable(j) : j \in OtherArrays}

CallLoad ==
    /\ call.fn = "none"
    /\ \E f \in Files :
           /\ file' = f
           /\ atoms' = load(f)
           /\ call' = [fn |-> "load", before |-> atoms]
    /\ UNCHANGED <<step_counter, debug_assertions, pc, panic, in_update, entry,
                   pre, ran, blocks, steps_taken, editor_vars, game_vars>>

\* Two calls of Grid::positions on a grid of SIZE entries on each axis or
\* on a rectangular array of other sizes.
CallPositions ==
    /\ call.fn = "none"
    /\ \E a \in {default_atoms,
                 [x \in 0..1 |-> [y \in 0..2 |-> [z \in 0..3 |-> GasZero]]],
                 [x \in 0..2 |-> [y \in 0..0 |-> [z \in 0..1 |-> GasZero]]]} :
           call' = [fn |-> "positions", atoms |-> a, first |-> positions(a),
                    second |-> positions(a)]
    /\ UNCHANGED <<grid_vars, editor_vars, file, game_vars>>

\* Grid2d::atoms_on_path between two cells of the 2D grid.
CallAtomsOnPath ==
    /\ call.fn = "none"
    /\ \E start, end \in (0..(GRID_SIZE - 1)) \X (0..(GRID_SIZE - 1)) :
           call' = [fn |-> "atoms_on_path", start |-> start, end |-> end,
                    path |-> atoms_on_path(start, end)]
    /\ UNCHANGED <<grid_vars, editor_vars, file, game_vars>>

\* Grid::save of the grid a load has stored.
CallSave ==
    /\ call.fn = "load"
    /\ \E io \in {"create fails", "write fails", "written"} :
           LET r == save(atoms, file, io)
           IN  /\ file' = r.file
               /\ panic' = r.panic
               /\ call' = [fn |-> "save", before |-> atoms]
    /\ UNCHANGED <<atoms, step_counter, debug_assertions, pc, in_update, entry,
                   pre, ran, blocks, steps_taken, editor_vars, game_vars>>

\* Grid::load of the file a save has written.
CallLoadSaved ==
    /\ call.fn = "save"
    /\ panic = "none"
    /\ atoms' = load(file)
    /\ call' = [fn |-> "load after save", saved |-> atoms]
    /\ UNCHANGED <<step_counter, debug_assertions, pc, panic, in_update, entry,
                   pre, ran, blocks, steps_taken, editor_vars, file,
                   game_vars>>

\* The coordinates of the mouse positions given to modify_under_path: left
\* of the grid, inside the cells 1, 2 and 3, right of the grid, and the two
\* infinities.
MouseCoordinates ==
    {QInt(-1), Q(3, 20), Q(29, 100), Q(7, 20), QInt(5), Infinity(1), Infinity(-1)}

\* Grid2d::modify_under_path on the grid of Grid2d::new.
CallModifyUnderPath ==
    /\ call.fn = "none"
    /\ \E start, end \in MouseCoordinates \X MouseCoordinates :
           LET r == modify_under_path(new_atoms_2d, start, end, Atom2dSolid)
           IN  /\ call' = [fn |-> "modify_under_path", start |-> start,
                           end |-> end, cells |-> cells_under_path(start, end),
                           atoms |-> r.atoms]
               /\ panic' = r.panic
    /\ UNCHANGED <<atoms, step_counter, debug_assertions, pc, in_update, entry,
                   pre, ran, blocks, steps_taken, editor_vars, file, game_vars>>

NextFn ==
    \/ CallSumGas
    \/ CallReachLocalEquilibrium
    \/ CallLoad
    \/ CallSave
    \/ CallLoadSaved
    \/ CallPositions
    \/ CallAtomsOnPath
    \/ CallModifyUnderPath

SpecFn == InitFn /\ [][NextFn]_vars

-----------------------------------------------------------------------------
(* SpecEvents: calls of EventMgr::push, begin_frame and pop in any order.  *)

\* The longest queue of events_for_next_frame the model lets push build.
MaxQueue == 3

EventKinds == {"LeftClickPressed", "LeftClickReleased", "MousePos"}

\* The events pushed: one of each kind, at the origin.
MgrEvents == {Event(kind, <<QZero, QZero>>) : kind \in EventKinds}

\* EventMgr::push
Push ==
    /\ pc = "idle"
    /\ Len(events_for_next_frame) < MaxQueue
    /\ \E event \in MgrEvents :
           events_for_next_frame' = Append(events_for_next_frame, event)
    /\ call' = [fn |-> "push"]
    /\ UNCHANGED <<grid_vars, editor_vars, file, events_for_this_frame, grid,
                   dragging_pos, events, current_atom, handled>>

\* EventMgr::begin_frame
BeginFrame ==
    /\ pc = "idle"
    /\ LET r == begin_frame(events_for_this_frame, events_for_next_frame,
                            debug_assertions)
       IN  /\ events_for_this_frame' = r.this_frame
           /\ events_for_next_frame' = r.next_frame
           /\ panic' = r.panic
           /\ pc' = IF r.panic = "none" THEN "idle" ELSE "aborted"
           /\ call' = [fn |-> "begin_frame", entered |-> events_for_this_frame,
                       returned |-> r.panic = "none"]
    /\ UNCHANGED <<atoms, step_counter, debug_assertions, in_update, entry,
                   pre, ran, blocks, steps_taken, editor_vars, file, grid,
                   dragging_pos, events, current_atom, handled>>

\* EventMgr::pop
Pop ==
    /\ pc = "idle"
    /\ IF events_for_this_frame = <<>>
       THEN /\ call' = [fn |-> "pop", result |-> None]
            /\ UNCHANGED events_for_this_frame
       ELSE /\ call' = [fn |-> "pop", result |-> Some(Head(events_for_this_frame))]
            /\ events_for_this_frame' = Tail(events_for_this_frame)
    /\ UNCHANGED <<grid_vars, editor_vars, file, events_for_next_frame, grid,
                   dragging_pos, events, current_atom, handled>>

NextEvents == Push \/ BeginFrame \/ Pop

SpecEvents == InitFn /\ [][NextEvents]_vars

-----------------------------------------------------------------------------
(* SpecGame: calls of Game::update_and_render_grid, each with the events   *)
(* Debugger::update left in the frame's queue.                             *)

\* The number of events handled in a run of the model.
MaxEvents == 3

\* The longest queue one call is given.
MaxFrameEvents == 2

\* Mouse positions in normalised window coordinates: below and left of the
\* grid (clamped into cell (0, 0)), inside cell (1, 2), and right of the
\* grid on its lowest row (clamped into cell (3, 0)).
MousePositions ==
    {<<QInt(-1), QInt(-1)>>, <<Q(-17, 20), Q(-31, 40)>>, <<QInt(1), Q(-7, 8)>>}

GameEvents == {Event(kind, pos) : kind \in EventKinds, pos \in MousePositions}

\* The queues of at most n events.
EventQueues(n) == UNION {[1..k -> GameEvents] : k \in 0..n}

\* nopush/grid_save.json as Game::load_grid finds it: missing, or the grid
\* an earlier run saved when it was dropped.
SavedGrids2d ==
    {[status |-> "missing"],
     [status |-> "readable",
      value |-> [x \in 0..(GRID_SIZE - 1) |->
                    [y \in 0..(GRID_SIZE - 1) |-> Atom2dLiquid]]]}

\* Entry of Game::update_and_render_grid: the reload, and the queue and the
\* editor state the events.retain call runs with.  The editor state changes
\* (Reload button, atom radio buttons) in frames with no event left for the
\* grid.
UpdateAndRenderGrid ==
    /\ pc = "idle"
    /\ \E queue \in EventQueues(MaxFrameEvents), should_reload \in BOOLEAN,
          saved \in SavedGrids2d,
          atom \in {current_atom, Atom2dSolid} :
           /\ Len(handled) + Len(queue) <= MaxEvents
           /\ should_reload \/ saved.status = "missing"
           \* the pointer events of a frame that clicks in the GUI are
           \* consumed by Debugger::update
           /\ (should_reload \/ atom # current_atom) => queue = <<>>
           /\ grid' = IF should_reload THEN load_grid(saved) ELSE grid
           /\ events' = queue
           /\ current_atom' = atom
           /\ pc' = IF queue = <<>> THEN "idle" ELSE "retain"
    /\ UNCHANGED <<atoms, step_counter, debug_assertions, panic, in_update,
                   entry, pre, ran, blocks, steps_taken, editor_vars, file,
                   call, events_for_this_frame, events_for_next_frame,
                   dragging_pos, handled>>

\* One call of the closure of events.retain, on the next event of the queue;
\* the closure returns false for the three kinds, so retain drops the event.
RetainEvent ==
    /\ pc = "retain"
    /\ LET r == handle_event(grid, dragging_pos, Head(events), current_atom)
       IN  /\ grid' = r.grid
           /\ dragging_pos' = r.dragging_pos
           /\ panic' = r.panic
           /\ pc' = IF r.panic # "none" THEN "aborted"
                    ELSE IF Len(events) = 1 THEN "idle" ELSE "retain"
    /\ events' = Tail(events)
    /\ handled' = Append(handled, Head(events).kind)
    /\ UNCHANGED <<atoms, step_counter, debug_assertions, in_update, entry,
                   pre, ran, blocks, steps_taken, editor_vars, file, call,
                   events_for_this_frame, events_for_next_frame, current_atom>>

NextGame == UpdateAndRenderGrid \/ RetainEvent

SpecGame == InitFn /\ [][NextGame]_vars

-----------------------------------------------------------------------------
(* Properties of Grid::step (SpecGrid).                                    *)

PhaseOrder ==
    <<"simulate_gas_velocity", "step_gas_source", "spread_gas", "apply_edge_vacuum">>

\* The number of phases that have returned when control is at pc.
PhasesBefore(at_pc) ==
    CASE at_pc = "simulate_gas_velocity" -> 0
      [] at_pc = "step_gas_source" -> 1
      [] at_pc = "spread_gas" -> 2
      [] at_pc = "apply_edge_vacuum" -> 3
      [] at_pc = "increment" -> 4

StepReturned == pc = "idle" /\ steps_taken > 0 /\ panic = "none"

\* C1: every call of Grid::step runs simulate_gas_velocity, step_gas_source,
\* spread_gas and apply_edge_vacuum in exactly that order, none skipped or
\* repeated, and then adds exactly 1 to step_counter, wrapping to 0 from the
\* largest value; a call that panics in a phase has run the phases before it
\* in that order.
C1_StepOrder ==
    /\ ran = SubSeq(PhaseOrder, 1, Len(ran))
    /\ pc \in {"simulate_gas_velocity", "step_gas_source", "spread_gas",
               "apply_edge_vacuum", "increment"}
           => /\ Len(ran) = PhasesBefore(pc)
              /\ step_counter = entry.step_counter
    /\ StepReturned
           => /\ ran = PhaseOrder
              /\ step_counter = IF entry.step_counter = CounterMod - 1 THEN 0
                                ELSE entry.step_counter + 1

\* A call made at the largest counter value has returned, the counter at 0.
C1_Witness ==
    /\ StepReturned
    /\ ran = PhaseOrder
    /\ entry.step_counter = CounterMod - 1
    /\ step_counter = 0

\* The cells with a coordinate equal to 0 or SIZE - 1.
Boundary ==
    {pos \in (0..(SIZE - 1)) \X (0..(SIZE - 1)) \X (0..(SIZE - 1)) :
        \E i \in 1..3 : pos[i] \in {0, SIZE - 1}}

VacuumRan == Len(ran) = 4 /\ ran[4] = "apply_edge_vacuum"

C3_VacuumIdempotent ==
    pc = "increment" => apply_edge_vacuum(atoms) = [atoms |-> atoms, panic |-> "none"]

\* The first application changed the grid (a GasSource inside the face x = 0
\* is gone) and the second would change nothing.
C3_Witness ==
    /\ pc = "increment"
    /\ at(pre, <<0, 2, 3>>).tag = "GasSource"
    /\ pre # atoms
    /\ apply_edge_vacuum(atoms).atoms = atoms

\* The cells of the blocks spread_gas averaged on this call.
AveragedCells ==
    {cells_2x2x2(blocks[i])[k] : i \in DOMAIN blocks, k \in 1..8}

Aligned(origin, parity) == \A i \in 1..3 : origin[i] % 2 = parity

\* C5: on one step() call spread_gas averages only even-aligned blocks, or
\* only odd-aligned blocks, or none, and the blocks it averages are pairwise
\* disjoint, so no cell is averaged twice on the call.
C5_OnePhasePerStep ==
    /\ \/ \A i \in DOMAIN blocks : Aligned(blocks[i], 0)
       \/ \A i \in DOMAIN blocks : Aligned(blocks[i], 1)
    /\ Cardinality(AveragedCells) = 8 * Len(blocks)
    /\ (Len(ran) >= 3 /\ entry.step_counter % (2 * SPREAD_FREQUENCY) \notin {0, SPREAD_FREQUENCY})
           => blocks = <<>>

\* spread_gas has averaged the odd-aligned blocks of the grid.
C5_Witness ==
    /\ pc = "apply_edge_vacuum"
    /\ Len(blocks) = ((SIZE - 1) \div 2) * ((SIZE - 1) \div 2) * ((SIZE - 1) \div 2)
    /\ blocks[1] = <<1, 1, 1>>
    /\ atoms # pre

\* Whether the cell at pos puts gas into target on a step from grid a: a gas
\* simulate_gas_velocity moves there, or a source that injects there.
Feeds(a, pos, target) ==
    LET atom == at(a, pos)
    IN  \/ atom.tag = "Gas" /\ ~Negligible(atom.v) /\ offset_cell(pos, atom.v) = target
        \/ atom.tag = "GasSource" /\ offset_cell(pos, atom.d) = target

\* The scenario of C7 in the grid the step started from: the source at
\* (2,2,2) pointing along +x, pressure-0 Gas at (3,2,2), and no other cell
\* that puts gas into (3,2,2).
C7_Scenario ==
    /\ at(entry.atoms, <<2, 2, 2>>) = GasSource(V3(1, 0, 0))
    /\ at(entry.atoms, <<3, 2, 2>>) = GasZero
    /\ \A pos \in (0..(SIZE - 1)) \X (0..(SIZE - 1)) \X (0..(SIZE - 1)) :
           pos # <<2, 2, 2>> => ~Feeds(entry.atoms, pos, <<3, 2, 2>>)

\* C7 as stated: in the scenario, after one complete step() cell (3,2,2)
\* holds pressure 1 and the source's direction as velocity, at every value of
\* step_counter.
C7_Original ==
    (StepReturned /\ C7_Scenario) => at(atoms, <<3, 2, 2>>) = Gas(QOne, V3(1, 0, 0))

\* C7 amended: in the scenario step_gas_source leaves (3,2,2) with pressure 1
\* and the source's direction as velocity at every value of step_counter, and
\* the cell still holds that when step() returns provided spread_gas averaged
\* nothing on the call (step_counter not a multiple of SPREAD_FREQUENCY); on a
\* call where spread_gas runs, with the rest of the grid pressure-0 Gas, the
\* cell ends with the mean of its block: 1/7 on the even phase, 1/8 on the odd.
C7_SourceInjection ==
    /\ (pc = "spread_gas" /\ C7_Scenario)
           => at(atoms, <<3, 2, 2>>) = Gas(QOne, V3(1, 0, 0))
    /\ (StepReturned /\ C7_Scenario /\ entry.step_counter % SPREAD_FREQUENCY # 0)
           => at(atoms, <<3, 2, 2>>) = Gas(QOne, V3(1, 0, 0))
    /\ (StepReturned /\ entry.atoms = source_scene
            /\ entry.step_counter % (2 * SPREAD_FREQUENCY) = 0)
           => at(atoms, <<3, 2, 2>>) = Gas(Q(1, 7), <<Q(1, 7), QZero, QZero>>)
    /\ (StepReturned /\ entry.atoms = source_scene
            /\ entry.step_counter % (2 * SPREAD_FREQUENCY) = SPREAD_FREQUENCY)
           => at(atoms, <<3, 2, 2>>) = Gas(Q(1, 8), <<Q(1, 8), QZero, QZero>>)

\* A step of the scenario on which spread_gas averaged nothing has returned,
\* with another gas elsewhere in the grid.
C7_Witness ==
    /\ StepReturned
    /\ C7_Scenario
    /\ entry.atoms # source_scene
    /\ entry.step_counter % SPREAD_FREQUENCY = 1
    /\ at(atoms, <<3, 2, 2>>).p = <<1, 1>>

\* The block of C8 for the phase of the call: the even-aligned one with
\* (1,1,1) as its last cell, or the odd-aligned one with it as its first.
C8_Block ==
    IF entry.step_counter % (2 * SPREAD_FREQUENCY) = 0
    THEN {cells_2x2x2(<<0, 0, 0>>)[k] : k \in 1..8}
    ELSE {cells_2x2x2(<<1, 1, 1>>)[k] : k \in 1..8}

\* A step from the grid of C8 on which spread_gas ran has returned.
C8_Scenario ==
    /\ StepReturned
    /\ entry.atoms = pressure_scene
    /\ entry.step_counter % SPREAD_FREQUENCY = 0

\* C8 as stated: every member of the block holds pressure 2 (8/4) and the
\* cells outside it are unchanged.
C8_Original ==
    C8_Scenario =>
        \A pos \in (0..(SIZE - 1)) \X (0..(SIZE - 1)) \X (0..(SIZE - 1)) :
            IF pos \in C8_Block THEN at(atoms, pos).p = <<2, 1>>
            ELSE at(atoms, pos) = at(entry.atoms, pos)

\* C8 amended: the block has eight cells, so after the step its members hold
\* pressure 1 (8/8) at rest, except those on the boundary of the grid, which
\* apply_edge_vacuum has set to pressure 0 on the same call (seven of the
\* eight on the even phase, none on the odd); the cells outside the block
\* are unchanged.
C8_BlockOfEight ==
    C8_Scenario =>
        \A pos \in (0..(SIZE - 1)) \X (0..(SIZE - 1)) \X (0..(SIZE - 1)) :
            IF pos \in C8_Block /\ pos \notin Boundary
            THEN at(atoms, pos) = Gas(QOne, VZero)
            ELSE IF pos \in C8_Block THEN at(atoms, pos) = GasZero
            ELSE at(atoms, pos) = at(entry.atoms, pos)

\* The step ran on the even phase: (1,1,1) holds 1 and its neighbour (0,1,1)
\* in the block is back at 0.
C8_Witness ==
    /\ C8_Scenario
    /\ entry.step_counter % (2 * SPREAD_FREQUENCY) = 0
    /\ at(atoms, <<1, 1, 1>>).p = <<1, 1>>
    /\ at(pre, <<0, 1, 1>>).p = <<1, 1>>
    /\ at(atoms, <<0, 1, 1>>).p = <<0, 1>>

-----------------------------------------------------------------------------
(* Properties of single calls (SpecFn).                                    *)

\* The rational q is n / d (d > 0), whatever form q is held in.
QEq(q, n, d) == q[1] * d = n * q[2]

\* C6: for two gases (p1, v1) and (p2, v2), sum_gas returns a Gas whose
\* pressure is p1 + p2 and whose velocity is v1 * p1 + v2 * p2, not divided
\* by the total pressure.
C6_SumGas ==
    call.fn = "sum_gas" =>
        LET p1 == call.a.p
            p2 == call.b.p
            v1 == call.a.v
            v2 == call.b.v
            r == call.result
        IN  /\ r.tag = "Gas"
            /\ QEq(r.p, p1[1] * p2[2] + p2[1] * p1[2], p1[2] * p2[2])
            /\ \A k \in 1..3 :
                   QEq(r.v[k],
                       v1[k][1] * p1[1] * v2[k][2] * p2[2]
                           + v2[k][1] * p2[1] * v1[k][2] * p1[2],
                       v1[k][2] * p1[2] * v2[k][2] * p2[2])

\* sum_gas has added a gas of pressure 3/2 to a moving one of pressure -2:
\* the total pressure is -1/2 and the velocity is not divided by it.
C6_Witness ==
    /\ call.fn = "sum_gas"
    /\ call.a = [p |-> <<3, 2>>, v |-> <<<<1, 2>>, <<-2, 1>>, <<3, 1>>>>]
    /\ call.b = [p |-> <<-2, 1>>, v |-> <<<<1, 1>>, <<0, 1>>, <<0, 1>>>>]
    /\ call.result.p = <<-1, 2>>
    /\ call.result.v = <<<<-5, 4>>, <<-3, 1>>, <<9, 2>>>>

\* The cells of the block of the call.
C4_Cells == cells_2x2x2(call.pos)

\* The pressure and the velocity of the gas in a cell, zero for another atom.
C4_Gas(a, pos) ==
    IF at(a, pos).tag = "Gas" THEN <<at(a, pos).p>> \o at(a, pos).v
    ELSE <<<<0, 1>>, <<0, 1>>, <<0, 1>>, <<0, 1>>>>

RECURSIVE C4_Sum(_, _, _)
\* The sum of component k of the gases in the first n cells of the block.
C4_Sum(a, k, n) ==
    IF n = 0 THEN <<0, 1>>
    ELSE QAdd(C4_Sum(a, k, n - 1), C4_Gas(a, C4_Cells[n])[k])

\* The grids a and b hold the same atoms outside the block of the call.
C4_SameOutside(a, b) ==
    LET inside(i, c) == c \in {call.pos[i], call.pos[i] + 1}
    IN  \A x \in 0..(SIZE - 1) :
            IF ~inside(1, x) THEN a[x] = b[x]
            ELSE \A y \in 0..(SIZE - 1) :
                     IF ~inside(2, y) THEN a[x][y] = b[x][y]
                     ELSE \A z \in 0..(SIZE - 1) :
                              inside(3, z) \/ a[x][y][z] = b[x][y][z]

\* C4: for every assignment of variants and pressures to the cells of a
\* 2x2x2 block, the averaging keeps the sum of the pressures of the block's
\* Gas cells, and leaves every Gas cell of the block with that sum divided by
\* the number of Gas cells and with the mean of their velocities; the cells
\* that do not hold Gas, and the cells outside the block, are not written.
C4_BlockAverage ==
    (call.fn = "reach_local_equilibrium" /\ panic = "none") =>
        LET gases == {i \in 1..8 : at(call.before, C4_Cells[i]).tag = "Gas"}
            n == Cardinality(gases)
            before == [k \in 1..4 |-> C4_Sum(call.before, k, 8)]
        IN  /\ QEq(C4_Sum(atoms, 1, 8), before[1][1], before[1][2])
            /\ \A i \in 1..8 :
                   IF i \in gases
                   THEN /\ at(atoms, C4_Cells[i]).tag = "Gas"
                        /\ \A k \in 1..4 :
                               QEq(C4_Gas(atoms, C4_Cells[i])[k],
                                   before[k][1], before[k][2] * n)
                   ELSE at(atoms, C4_Cells[i]) = at(call.before, C4_Cells[i])
            /\ C4_SameOutside(atoms, call.before)

\* The closure has averaged an odd-aligned block of five gases, of pressures
\* 1 and 3, and three Solids.
C4_Witness ==
    /\ call.fn = "reach_local_equilibrium"
    /\ panic = "none"
    /\ call.pos = <<3, 3, 3>>
    /\ Cardinality({i \in 1..8 : at(call.before, C4_Cells[i]).tag = "Gas"}) = 5
    /\ C4_Gas(call.before, <<3, 3, 3>>)[1] = <<3, 1>>
    /\ C4_Gas(call.before, <<4, 4, 4>>)[1] = <<1, 1>>
    /\ C4_Gas(atoms, <<3, 3, 3>>)[1] = <<7, 5>>
    /\ C4_Gas(atoms, <<4, 4, 4>>)[1] = <<7, 5>>

\* The five cells the default grid holds a Solid in.
C10_Solids ==
    {<<1, 1, 1>>, <<SIZE - 2, 1, 1>>, <<1, SIZE - 2, 1>>, <<1, 1, SIZE - 2>>,
     <<SIZE - 2, SIZE - 2, SIZE - 2>>}

\* Opening, reading or parsing the save file fails.
C10_Fails ==
    \/ file.status \in {"missing", "unreadable"}
    \/ file.status = "readable" /\ ~file.json
    \/ file.status = "readable" /\ file.json /\ ~is_atoms(file.value)

\* C10: Grid::load never fails: when opening, reading or parsing the save
\* file fails, atoms becomes the SIZE x SIZE x SIZE grid in which every cell
\* is Gas of pressure 0 and velocity 0 except five Solids at (1,1,1),
\* (SIZE-2,1,1), (1,SIZE-2,1), (1,1,SIZE-2) and (SIZE-2,SIZE-2,SIZE-2), and
\* the call returns without a panic.
C10_LoadFallsBack ==
    call.fn = "load" =>
        /\ panic = "none"
        /\ pc = "idle"
        /\ C10_Fails =>
               /\ DOMAIN atoms = 0..(SIZE - 1)
               /\ \A x \in 0..(SIZE - 1) :
                      /\ DOMAIN atoms[x] = 0..(SIZE - 1)
                      /\ \A y \in 0..(SIZE - 1) :
                             /\ DOMAIN atoms[x][y] = 0..(SIZE - 1)
                             /\ \A z \in 0..(SIZE - 1) :
                                    IF <<x, y, z>> \in C10_Solids
                                    THEN atoms[x][y][z].tag = "Solid"
                                    ELSE /\ atoms[x][y][z].tag = "Gas"
                                         /\ atoms[x][y][z].p = <<0, 1>>
                                         /\ atoms[x][y][z].v = <<<<0, 1>>, <<0, 1>>, <<0, 1>>>>

\* Grid::load has met a file that is not JSON and stored the default grid
\* over a grid that held no Solid.
C10_Witness ==
    /\ call.fn = "load"
    /\ file = [status |-> "readable", json |-> FALSE]
    /\ at(call.before, <<1, 1, 1>>).tag = "Gas"
    /\ at(atoms, <<1, 1, 1>>).tag = "Solid"
    /\ at(atoms, <<SIZE - 2, SIZE - 2, SIZE - 2>>).tag = "Solid"

-----------------------------------------------------------------------------
(* Properties of the editor's frames (Spec).                               *)

\* C9: from the default grid, after any sequence of Editor::update calls,
\* every position used to index the grid lies in [0, SIZE) on each axis: the
\* proposed position written through at_mut, the neighbour step_gas_source
\* injects into, and the cells the other phases of step() read and write.
\* An index outside the Vecs is the panic of that name.
C9_IndicesInBounds ==
    panic \notin {"index out of bounds", "pointer past the end"}

-----------------------------------------------------------------------------
(* Properties of Grid::load and Grid::save (SpecFn).                       *)

\* A Vec of exactly n entries.
HasLen(vec, n) == DOMAIN vec = 0..(n - 1)

\* C11: after every Grid::load the atoms array has exactly SIZE entries on
\* each of its three axes, a save file of another shape being replaced by
\* the default grid.
C11_LoadedShape ==
    call.fn \in {"load", "load after save"} =>
        /\ HasLen(atoms, SIZE)
        /\ \A x \in DOMAIN atoms :
               /\ HasLen(atoms[x], SIZE)
               /\ \A y \in DOMAIN atoms[x] : HasLen(atoms[x][y], SIZE)

\* C12: Grid::save followed by Grid::load yields an atoms array identical
\* to the one saved.
C12_RoundTrip == call.fn = "load after save" => atoms = call.saved

\* The round trip of a grid whose numbers are all finite.
C12_FiniteCell(atom) ==
    CASE IsSolid(atom) -> \A i \in 1..4 : is_finite(atom.color[i])
      [] IsGas(atom) -> is_finite(atom.p) /\ \A i \in 1..3 : is_finite(atom.v[i])
      [] IsGasSource(atom) -> \A i \in 1..3 : is_finite(atom.d[i])

C12_Finite(a) ==
    \A x \in DOMAIN a : \A y \in DOMAIN a[x] : \A z \in DOMAIN a[x][y] :
        C12_FiniteCell(a[x][y][z])

C12_FiniteRoundTrip ==
    (call.fn = "load after save" /\ C12_Finite(call.saved)) => atoms = call.saved

-----------------------------------------------------------------------------
(* Properties of Grid::positions (SpecFn).                                 *)

\* p comes before q when x is the outermost and z the innermost axis.
C13_Before(p, q) ==
    \/ p[1] < q[1]
    \/ p[1] = q[1] /\ p[2] < q[2]
    \/ p[1] = q[1] /\ p[2] = q[2] /\ p[3] < q[3]

\* C13: Grid::positions() yields every position of the grid exactly once,
\* x-size * y-size * z-size positions in total, with x as the outermost, y
\* as the middle and z as the innermost axis, and a second call starts
\* again from (0,0,0) and yields the same positions.
C13_Positions ==
    call.fn = "positions" =>
        LET a == call.atoms
            r == call.first
        IN  /\ Len(r) = VecLen(a) * VecLen(a[0]) * VecLen(a[0][0])
            /\ \A i \in 1..Len(r) : InBounds(a, r[i])
            /\ \A x \in DOMAIN a : \A y \in DOMAIN a[x] : \A z \in DOMAIN a[x][y] :
                   Cardinality({i \in 1..Len(r) : r[i] = <<x, y, z>>}) = 1
            /\ \A i \in 1..(Len(r) - 1) : C13_Before(r[i], r[i + 1])
            /\ r[1] = <<0, 0, 0>>
            /\ call.second = r

\* positions() has run on a 2 x 3 x 4 array: 24 positions, the second
\* (0,0,1), the fifth (0,1,0), the last (1,2,3).
C13_Witness ==
    /\ call.fn = "positions"
    /\ VecLen(call.atoms) = 2
    /\ Len(call.first) = 24
    /\ call.first[2] = <<0, 0, 1>>
    /\ call.first[5] = <<0, 1, 0>>
    /\ call.first[24] = <<1, 2, 3>>

-----------------------------------------------------------------------------
(* Properties of Grid2d::atoms_on_path (SpecFn).                           *)

\* C14: for every pair of cells start and end, atoms_on_path(start, end)
\* returns a path from start to end in which every two consecutive cells
\* differ by exactly 1 in exactly one coordinate and which has
\* |start.x - end.x| + |start.y - end.y| + 1 cells; for start = end it is
\* the single cell start.
C14_Path ==
    call.fn = "atoms_on_path" =>
        LET path == call.path
        IN  /\ Len(path) =
                   Abs(call.start[1] - call.end[1]) + Abs(call.start[2] - call.end[2]) + 1
            /\ path[1] = call.start
            /\ path[Len(path)] = call.end
            /\ \A i \in 1..(Len(path) - 1) :
                   Abs(path[i][1] - path[i + 1][1]) + Abs(path[i][2] - path[i + 1][2]) = 1
            /\ call.start = call.end => path = <<call.start>>

\* atoms_on_path((0,3), (2,0)) has returned its six cells: two steps along
\* y, then x and y in turn.
C14_Witness ==
    /\ call.fn = "atoms_on_path"
    /\ call.path = <<<<0, 3>>, <<0, 2>>, <<0, 1>>, <<1, 1>>, <<1, 0>>, <<2, 0>>>>

-----------------------------------------------------------------------------
(* Properties of simulate_gas_velocity (SpecGrid).                         *)

\* The destination simulate_gas_velocity computes for the Gas at src_pos.
C15_Dst(src_pos) == offset_cell(src_pos, at(atoms, src_pos).v)

\* Every moving Gas cell has its destination within Chebyshev distance 1.
C15_Near ==
    pc = "simulate_gas_velocity" =>
        \A x, y, z \in 0..(SIZE - 1) :
            (IsGas(atoms[x][y][z]) /\ ~Negligible(atoms[x][y][z].v)) =>
                chebyshev_distance(<<x, y, z>>, C15_Dst(<<x, y, z>>)) <= 1

\* C15: for every Gas cell with squared velocity magnitude >= 0.001, at
\* any position of the grid and with any velocity direction, the
\* destination computed by simulate_gas_velocity is at Chebyshev distance
\* at most 1 from the source and is not the source, and neither debug
\* assertion of the phase fails.
C15_Destination ==
    /\ panic \notin {"assert chebyshev_distance <= 1", "assert src_pos != dst_pos"}
    /\ pc = "simulate_gas_velocity" =>
           \A x, y, z \in 0..(SIZE - 1) :
               (IsGas(atoms[x][y][z]) /\ ~Negligible(atoms[x][y][z].v)) =>
                   /\ chebyshev_distance(<<x, y, z>>, C15_Dst(<<x, y, z>>)) <= 1
                   /\ C15_Dst(<<x, y, z>>) # <<x, y, z>>

\* simulate_gas_velocity has returned; pre is the grid it was called on.
VelocityRan == pc = "step_gas_source" /\ panic = "none"

\* The cell held Gas with squared velocity magnitude >= 0.001.
Moving(a, pos) == IsGas(at(a, pos)) /\ ~Negligible(at(a, pos).v)

\* The moving cells of a, in positions() order.
Sources(a) == SelectSeq(positions(a), LAMBDA src : Moving(a, src))

\* Those of the sources whose destination is pos.
Incoming(a, sources, pos) ==
    SelectSeq(sources, LAMBDA src : offset_cell(src, at(a, src).v) = pos)

\* The sum of the pressures a holds in the cells of the sequence.
PressureOf(a, cells) ==
    Fold(LAMBDA acc, pos : IF IsGas(at(a, pos)) THEN QAdd(acc, at(a, pos).p) ELSE acc,
         QZero, cells)

\* The statement of C16 as the spec has it: every cell that held moving Gas
\* holds pressure 0 and velocity 0 after the phase.
C16_Original ==
    VelocityRan =>
        \A x, y, z \in 0..(SIZE - 1) :
            Moving(pre, <<x, y, z>>) => atoms[x][y][z] = GasZero

\* C16: after simulate_gas_velocity, every cell that held Gas with squared
\* velocity magnitude >= 0.001 has lost its own pressure and velocity,
\* whether or not its own transfer succeeded: it holds Gas(0,0) when no
\* source has it as destination, and otherwise only what the sources with
\* that destination carried, Gas(p, v*p) for a single source (p,v) and the
\* sum of their pressures for several.
C16_SourcesReplaced ==
    VelocityRan =>
        LET sources == Sources(pre)
        IN  \A i \in 1..Len(sources) :
                LET x == sources[i][1]
                    y == sources[i][2]
                    z == sources[i][3]
                    incoming == Incoming(pre, sources, sources[i])
                IN  /\ IsGas(atoms[x][y][z])
                    /\ atoms[x][y][z].p = PressureOf(pre, incoming)
                    /\ incoming = <<>> => atoms[x][y][z] = GasZero
                    /\ Len(incoming) = 1 =>
                           atoms[x][y][z].v =
                               VScale(at(pre, incoming[1]).v, at(pre, incoming[1]).p)

\* The phase has run on the flow scene with Gas(3, (1,0,0)) in (1,2,2): the
\* cell (1,2,2) is empty, (3,2,2) holds the gas of (2,2,2) alone, and
\* (2,2,2) holds the pressures of its three sources, 3 + 1 + 5.
C16_Witness ==
    /\ VelocityRan
    /\ at(pre, <<1, 2, 2>>) = Gas(QInt(3), V3(1, 0, 0))
    /\ at(pre, <<2, 2, 2>>) = Gas(QInt(2), V3(1, 0, 0))
    /\ at(atoms, <<1, 2, 2>>) = GasZero
    /\ at(atoms, <<3, 2, 2>>) = Gas(QInt(2), V3(2, 0, 0))
    /\ at(atoms, <<2, 2, 2>>).p = QInt(9)

\* The source's destination is outside the grid or does not hold Gas.
C17_Dropped(a, src) ==
    LET dst == offset_cell(src, at(a, src).v)
    IN  /\ Moving(a, src)
        /\ IF dst[1] < SIZE /\ dst[2] < SIZE /\ dst[3] < SIZE
           THEN ~IsGas(at(a, dst))
           ELSE TRUE

\* C17: in simulate_gas_velocity every source whose destination is inside
\* the grid and holds Gas is merged into the destination with sum_gas and
\* every other source's pressure is dropped: each Gas cell ends with the
\* pressure it keeps (none if it moved) plus the pressures of the sources
\* arriving in it, no other cell changes, and the sum of all Gas pressures
\* after the phase is the sum before it minus the pressures of the dropped
\* sources.
C17_Transfer ==
    VelocityRan =>
        LET sources == Sources(pre)
            dropped == SelectSeq(sources, LAMBDA src : C17_Dropped(pre, src))
        IN  /\ \A x, y, z \in 0..(SIZE - 1) :
                   LET pos == <<x, y, z>>
                       incoming == Incoming(pre, sources, pos)
                   IN  IF IsGas(pre[x][y][z])
                       THEN /\ IsGas(atoms[x][y][z])
                            /\ atoms[x][y][z].p =
                                   QAdd(IF Moving(pre, pos) THEN QZero
                                        ELSE pre[x][y][z].p,
                                        PressureOf(pre, incoming))
                            /\ (Len(incoming) = 1 /\ ~Moving(pre, pos)) =>
                                   atoms[x][y][z] =
                                       sum_gas(pre[x][y][z], at(pre, incoming[1]))
                       ELSE atoms[x][y][z] = pre[x][y][z]
            /\ QAdd(PressureOf(atoms, positions(atoms)), PressureOf(pre, dropped))
                   = PressureOf(pre, positions(pre))

\* The phase has run on the flow scene with Gas(3, (1,0,0)) in (5,3,3): that
\* gas left the grid, the gas of (4,4,3) ran into the Solid at (4,4,4),
\* (2,2,2) received 1 + 5 from two sources, and of the total pressure 14 the
\* grid keeps 8.
C17_Witness ==
    /\ VelocityRan
    /\ at(pre, <<5, 3, 3>>) = Gas(QInt(3), V3(1, 0, 0))
    /\ at(pre, <<4, 4, 3>>) = Gas(QInt(3), V3(0, 0, 2))
    /\ IsSolid(at(pre, <<4, 4, 4>>))
    /\ at(atoms, <<2, 2, 2>>).p = QInt(6)
    /\ PressureOf(pre, positions(pre)) = QInt(14)
    /\ PressureOf(atoms, positions(atoms)) = QInt(8)

-----------------------------------------------------------------------------
(* Properties of step_gas_source (SpecGrid).                               *)

\* The debug assertion of step_gas_source does not fail for a source in
\* the interior of the grid.
C18_InteriorAssertion ==
    ~ /\ panic = "assert manhattan_distance == 1"
      /\ \E x, y, z \in 1..(SIZE - 2) :
             /\ IsGasSource(pre[x][y][z])
             /\ manhattan_distance(<<x, y, z>>,
                                   offset_cell(<<x, y, z>>, pre[x][y][z].d)) = 2

\* C18: for every GasSource cell with direction d, step_gas_source targets
\* the cell at Manhattan distance exactly 1 from the source (the debug
\* assertion never fails).
C18_Target ==
    /\ panic # "assert manhattan_distance == 1"
    /\ pc = "step_gas_source" =>
           \A x, y, z \in 0..(SIZE - 1) :
               IsGasSource(atoms[x][y][z]) =>
                   manhattan_distance(<<x, y, z>>,
                                      offset_cell(<<x, y, z>>, atoms[x][y][z].d)) = 1

\* The rest of C18, whenever the phase returns: the target of a source
\* with direction d that held Gas(p, v) and is the target of no other
\* source holds Gas(p + 1, v*p + d), a target that held Solid or GasSource
\* is unchanged, and so is every cell that is no source's target.
C18_Injection ==
    (pc = "spread_gas" /\ panic = "none") =>
        LET sources == SelectSeq(positions(pre), LAMBDA pos : IsGasSource(at(pre, pos)))
            target == [i \in 1..Len(sources) |->
                          offset_cell(sources[i], at(pre, sources[i]).d)]
        IN  \A x, y, z \in 0..(SIZE - 1) :
                LET feeding == {i \in 1..Len(sources) : target[i] = <<x, y, z>>}
                IN  IF feeding = {} \/ ~IsGas(pre[x][y][z])
                    THEN atoms[x][y][z] = pre[x][y][z]
                    ELSE \A i \in feeding :
                             feeding = {i} =>
                                 atoms[x][y][z] =
                                     Gas(QAdd(pre[x][y][z].p, QOne),
                                         VAdd(VScale(pre[x][y][z].v, pre[x][y][z].p),
                                              at(pre, sources[i]).d))

-----------------------------------------------------------------------------
(* What step() leaves alone (SpecGrid).                                    *)

\* C19: step() never changes a Solid or GasSource cell whose coordinates
\* are all strictly between 0 and SIZE-1: simulate_gas_velocity,
\* step_gas_source and spread_gas only overwrite cells that hold Gas and
\* only with Gas, and apply_edge_vacuum changes cells of the boundary layer
\* only.
C19_SolidsAndSourcesKept ==
    /\ \A x, y, z \in 1..(SIZE - 2) :
           ~IsGas(entry.atoms[x][y][z]) => atoms[x][y][z] = entry.atoms[x][y][z]
    /\ pc \in {"step_gas_source", "spread_gas", "apply_edge_vacuum"} =>
           \A x, y, z \in 0..(SIZE - 1) :
               IF IsGas(pre[x][y][z])
               THEN IsGas(atoms[x][y][z])
               ELSE atoms[x][y][z] = pre[x][y][z]
    /\ pc = "increment" =>
           \A x, y, z \in 1..(SIZE - 2) : atoms[x][y][z] = pre[x][y][z]

\* step() has returned on the mixed scene with a Solid in (3,2,2), at which
\* the source in (3,2,3) points: the gas of (2,2,2) has been averaged, the
\* interior Solids and the GasSource are as they were, and the Solid of
\* the boundary cell (0,3,2) has become Gas.
C19_Witness ==
    /\ StepReturned
    /\ at(entry.atoms, <<3, 2, 3>>) = GasSource(V3(0, 0, -1))
    /\ at(atoms, <<3, 2, 3>>) = GasSource(V3(0, 0, -1))
    /\ at(entry.atoms, <<3, 2, 2>>) = Solid(Grey)
    /\ at(atoms, <<3, 2, 2>>) = Solid(Grey)
    /\ at(atoms, <<3, 3, 2>>) = Solid(Red)
    /\ at(atoms, <<2, 2, 2>>) # at(entry.atoms, <<2, 2, 2>>)
    /\ IsSolid(at(entry.atoms, <<0, 3, 2>>))
    /\ at(atoms, <<0, 3, 2>>) = GasZero

-----------------------------------------------------------------------------
(* The schedule of spread_gas over consecutive steps (SpecRun).            *)

\* The block origins with every coordinate in first, first + 2, ..., last.
C20_Origins(first, last) ==
    LET axis == {first + 2 * k : k \in 0..((last - first) \div 2)}
    IN  axis \X axis \X axis

\* The Gas cells of the block at origin hold one and the same gas.
C20_Levelled(origin) ==
    \A i, k \in 1..8 :
        LET c == cells_2x2x2(origin)
        IN  (IsGas(at(atoms, c[i])) /\ IsGas(at(atoms, c[k])))
                => at(atoms, c[i]) = at(atoms, c[k])

\* C20: spread_gas averages the even-aligned blocks (origins 0, 2, ...,
\* SIZE-2 on each axis) exactly on the steps where step_counter mod
\* (2 * SPREAD_FREQUENCY) is 0, the odd-aligned blocks (origins 1, 3, ...,
\* SIZE-3, covering only cells with coordinates 1..SIZE-2) exactly on the
\* steps where it is SPREAD_FREQUENCY, and changes no cell on any other
\* step; along a run of consecutive step() calls an even phase is followed
\* by an odd phase and an odd phase by an even one.
C20_Schedule ==
    pc = "apply_edge_vacuum" =>
        LET phase == step_counter % (2 * SPREAD_FREQUENCY)
            averaged == {blocks[i] : i \in DOMAIN blocks}
        IN  /\ phase = 0 =>
                   /\ averaged = C20_Origins(0, SIZE - 2)
                   /\ \A origin \in C20_Origins(0, SIZE - 2) : C20_Levelled(origin)
                   /\ entry.spread # "even"
            /\ phase = SPREAD_FREQUENCY =>
                   /\ averaged = C20_Origins(1, SIZE - 3)
                   /\ \A origin \in C20_Origins(1, SIZE - 3) : C20_Levelled(origin)
                   /\ AveragedCells \subseteq
                          (1..(SIZE - 2)) \X (1..(SIZE - 2)) \X (1..(SIZE - 2))
                   /\ \A x, y, z \in 0..(SIZE - 1) :
                          <<x, y, z>> \notin AveragedCells
                              => atoms[x][y][z] = pre[x][y][z]
                   /\ entry.spread # "odd"
            /\ phase \notin {0, SPREAD_FREQUENCY} =>
                   /\ averaged = {}
                   /\ atoms = pre

\* On the third consecutive step, from step_counter 0, spread_gas has
\* averaged the odd-aligned blocks after the even-aligned ones of the first
\* step: the pressure 8 of (1,1,1), levelled to 1 in the block at (0,0,0)
\* and removed from the boundary, is levelled again in the block at (1,1,1).
C20_Witness ==
    /\ pc = "apply_edge_vacuum"
    /\ steps_taken = 3
    /\ step_counter = SPREAD_FREQUENCY
    /\ entry.spread = "even"
    /\ at(pre, <<1, 1, 1>>) = Gas(QOne, VZero)
    /\ at(atoms, <<1, 1, 1>>) = Gas(Q(1, 8), VZero)
    /\ at(atoms, <<2, 2, 2>>) = Gas(Q(1, 8), VZero)

-----------------------------------------------------------------------------
(* The blocks spread_gas meets after edits (SpecBuild).                    *)

\* C21: every 2x2x2 block that spread_gas processes contains at least one
\* Gas cell (the debug assertion gases.len() != 0 never fails), in every
\* state reachable from the default grid by editor add/remove operations
\* and step() calls.
C21_BlocksHoldGas ==
    /\ panic # "assert gases.len() != 0"
    /\ pc = "spread_gas" =>
           LET origin == spread_blocks(step_counter)
           IN  \A i \in 1..Len(origin) :
                   \E k \in 1..8 : IsGas(at(atoms, cells_2x2x2(origin[i])[k]))

\* C22: a frame of Editor::update enters Grid::step exactly when is_playing or
\* should_step is set, and only at the start of the frame; step_counter changes
\* only by the one increment of that step; and while both flags are clear the
\* atoms change only in the edit at the end of the frame.
C22_OneStepPerFrame ==
    [][/\ pc = "idle" =>
              /\ (is_playing' \/ should_step') <=> pc' = after_phase("enter")
              /\ steps_taken' = steps_taken
                                 + (IF is_playing' \/ should_step' THEN 1 ELSE 0)
       /\ pc # "idle" => steps_taken' = steps_taken
       /\ step_counter' # step_counter =>
              /\ pc = "increment"
              /\ step_counter = entry.step_counter
              /\ step_counter' = wrapping_add_1(entry.step_counter)
       /\ (atoms' # atoms /\ ~(is_playing \/ should_step)) => pc = "select"]_vars

\* A frame with a flag set has run its one step and is about to edit, and the
\* step has changed the grid.
C22_Witness ==
    /\ pc = "select"
    /\ in_update
    /\ is_playing \/ should_step
    /\ panic = "none"
    /\ steps_taken = 2
    /\ step_counter = wrapping_add_1(entry.step_counter)
    /\ atoms # entry.atoms

\* C23: from the default grid, through the editor's adds and removes and the
\* phases of step(), every Gas cell holds a pressure that is not negative, at
\* every point of every frame.
C23_PressureNotNegative ==
    \A i \in DOMAIN positions(atoms) :
        LET atom == at(atoms, positions(atoms)[i])
        IN  IsGas(atom) => QLeq(QZero, atom.p)

\* Two steps after a GasSource was added next to the default Solid: the step
\* has returned and some Gas cell of the interior holds a positive pressure
\* that it did not hold when the step was entered.
C23_Witness ==
    /\ pc = "select"
    /\ in_update
    /\ panic = "none"
    /\ steps_taken = 2
    /\ IsGasSource(at(atoms, <<1, 2, SIZE - 2>>))
    /\ \E i \in DOMAIN positions(atoms) :
           LET pos == positions(atoms)[i]
           IN  /\ IsGas(at(atoms, pos))
               /\ QLess(QZero, at(atoms, pos).p)
               /\ at(entry.atoms, pos) # at(atoms, pos)

\* The cells in the interior of a boundary face: exactly one coordinate is 0
\* or SIZE-1.
FaceInterior ==
    {pos \in Boundary : Cardinality({i \in 1..3 : pos[i] \in {0, SIZE - 1}}) = 1}

-----------------------------------------------------------------------------
(* Properties of EventMgr (SpecEvents).                                    *)

\* C25: neither assertion of EventMgr::begin_frame fails, and whenever
\* begin_frame has returned, events_for_this_frame was empty when it was
\* entered and events_for_next_frame is empty.
C25_AssertionsHold ==
    /\ panic \notin {"assert events_for_this_frame.is_empty()",
                      "assert events_for_next_frame.is_empty()"}
    /\ (call.fn = "begin_frame" /\ call.returned) =>
           /\ call.entered = <<>>
           /\ events_for_next_frame = <<>>

-----------------------------------------------------------------------------
(* The total pressure over a step (SpecGrid).                              *)

\* The grid holds no GasSource and no Gas with a negative pressure.
C26_Closed(a) ==
    \A i \in DOMAIN positions(a) :
        LET atom == at(a, positions(a)[i])
        IN  /\ ~IsGasSource(atom)
            /\ IsGas(atom) => QLeq(QZero, atom.p)

\* C26: when the grid on entry to step() holds no GasSource and no negative
\* pressure, the sum of the Gas pressures after each phase is at most the sum
\* before that phase, and so at most the sum on entry to the step; the block
\* averaging leaves the sum as it was.
C26_SumNotIncreased ==
    C26_Closed(entry.atoms) =>
        LET before == PressureOf(pre, positions(pre))
            after == PressureOf(atoms, positions(atoms))
        IN  /\ QLeq(after, before)
            /\ QLeq(after, PressureOf(entry.atoms, positions(entry.atoms)))
            /\ (pc = "apply_edge_vacuum" /\ panic = "none") => after = before

\* A step of a grid without sources has returned: part of the pressure it
\* held on entry is left and part has been dropped.
C26_Witness ==
    /\ StepReturned
    /\ C26_Closed(entry.atoms)
    /\ QLess(QZero, PressureOf(atoms, positions(atoms)))
    /\ QLess(PressureOf(atoms, positions(atoms)),
             PressureOf(entry.atoms, positions(entry.atoms)))
    /\ blocks # <<>>

-----------------------------------------------------------------------------
(* The averaging cycle across the wrap of step_counter (SpecRun).          *)

\* What a spread_gas call that passed these origins did.
C27_Kind(origin) == last_spread("idle", origin)

\* C27: along consecutive step() calls, the wrap of step_counter included,
\* a step whose spread_gas averaged blocks is followed by a step whose
\* spread_gas averages none, and a step that averaged none is followed by a
\* step that averages the blocks of the alignment other than the one
\* averaged last; spread_gas passes exactly the origins of its step_counter.
C27_CycleUnbroken ==
    [][/\ (pc = "idle" /\ pc' # "idle" /\ steps_taken > 0) =>
              LET previous == C27_Kind(blocks)
                  next == C27_Kind(spread_blocks(step_counter))
              IN  /\ previous \in {"even", "odd"} => next = "idle"
                  /\ previous = "idle" =>
                         /\ next \in {"even", "odd"}
                         /\ next # entry'.spread
       /\ (pc = "spread_gas" /\ panic' = "none") =>
              blocks' = spread_blocks(step_counter)
       /\ pc = "increment" =>
              step_counter' % (2 * SPREAD_FREQUENCY)
                  = ((step_counter % (2 * SPREAD_FREQUENCY)) + 1)
                        % (2 * SPREAD_FREQUENCY)]_vars

\* The third step of a run that started two values before the wrap: the
\* first step averaged the odd-aligned blocks, the second none, the counter
\* wrapped to 0, and this step has averaged the even-aligned blocks.
C27_Witness ==
    /\ pc = "apply_edge_vacuum"
    /\ steps_taken = 3
    /\ step_counter = 0
    /\ entry.step_counter = 0
    /\ entry.spread = "odd"
    /\ blocks # <<>>
    /\ blocks[1] = <<0, 0, 0>>

-----------------------------------------------------------------------------
(* The drag of Game::update_and_render_grid (SpecGame).                    *)

\* Whether the last click among the handled events is a LeftClickPressed.
RECURSIVE C28_Pressed(_, _)
C28_Pressed(kinds, n) ==
    IF n = 0 THEN FALSE
    ELSE IF kinds[n] = "MousePos" THEN C28_Pressed(kinds, n - 1)
    ELSE kinds[n] = "LeftClickPressed"

\* The cells of the grid that differ between g and h.
C28_Changed(g, h) ==
    {cell \in (0..(GRID_SIZE - 1)) \X (0..(GRID_SIZE - 1)) :
        g[cell[1]][cell[2]] # h[cell[1]][cell[2]]}

\* C28: a drag is in progress exactly after a LeftClickPressed with no
\* LeftClickReleased handled since; a MousePos changes grid cells only
\* while a drag is in progress, and then only cells on the path from the
\* drag position to its own, which it leaves holding the current atom; a
\* LeftClickPressed stores the current atom in the cell its position is
\* clamped into, changes no other cell and starts a drag; a
\* LeftClickReleased ends the drag and changes no cell.
C28_DragWrites ==
    [][pc = "retain" =>
           LET event == Head(events)
               path == atoms_on_path(game_cell(dragging_pos[1]),
                                     game_cell(event.pos))
           IN  /\ (dragging_pos # None) <=> C28_Pressed(handled, Len(handled))
               /\ (dragging_pos' # None) <=> C28_Pressed(handled', Len(handled'))
               /\ (event.kind = "MousePos" /\ dragging_pos = None) =>
                      /\ grid' = grid
                      /\ dragging_pos' = None
               /\ (event.kind = "MousePos" /\ dragging_pos # None) =>
                      /\ C28_Changed(grid, grid')
                             \subseteq {path[i] : i \in DOMAIN path}
                      /\ \A i \in DOMAIN path :
                             grid'[path[i][1]][path[i][2]] = current_atom
                      /\ dragging_pos' = Some(event.pos)
               /\ event.kind = "LeftClickPressed" =>
                      /\ C28_Changed(grid, grid') \subseteq {game_cell(event.pos)}
                      /\ grid'[game_cell(event.pos)[1]][game_cell(event.pos)[2]]
                             = current_atom
                      /\ dragging_pos' = Some(event.pos)
               /\ event.kind = "LeftClickReleased" =>
                      /\ grid' = grid
                      /\ dragging_pos' = None
               /\ panic' = "none"]_vars

\* A press below and left of the grid, a move into cell (1, 2) and a release
\* have been handled: the four cells of the path hold the Solid that was
\* drawn, the rest of the grid is as new, and no drag is in progress.
C28_Witness ==
    /\ handled = <<"LeftClickPressed", "MousePos", "LeftClickReleased">>
    /\ current_atom = Atom2dSolid
    /\ dragging_pos = None
    /\ C28_Changed(new_atoms_2d, grid) = {<<0, 0>>, <<0, 1>>, <<0, 2>>, <<1, 2>>}
    /\ grid[1][2] = Atom2dSolid

-----------------------------------------------------------------------------
(* The cells Grid2d::modify_under_path writes (SpecFn).                    *)

\* v lies between a and b, whichever is the larger.
C29_Between(v, a, b) == (a <= v /\ v <= b) \/ (b <= v /\ v <= a)

\* Every cell of the path has both coordinates between those of the ends.
C29_Boxed(path, start, end) ==
    \A i \in DOMAIN path :
        /\ C29_Between(path[i][1], start[1], end[1])
        /\ C29_Between(path[i][2], start[2], end[2])

-----------------------------------------------------------------------------
(* The order of step, add and remove in Editor::update (SpecClick).        *)

\* C30: the edit of a frame is made after the frame's step has returned; a
\* frame with a left click stores the new atom at the proposed position and
\* changes no other cell, and changes no cell when there is no proposed
\* position, whether or not a right click came with it; a frame with a
\* right click alone stores Gas with pressure 0 and velocity 0 in the
\* highlighted cell; a frame with neither changes no cell.
C30_AddBeforeRemove ==
    [][pc = "select" =>
           /\ (is_playing \/ should_step) =>
                  /\ Len(ran) = 4
                  /\ step_counter = wrapping_add_1(entry.step_counter)
           /\ (should_add_atom /\ proposed_atom' = None) => atoms' = atoms
           /\ (should_add_atom /\ proposed_atom' # None /\ panic' = "none") =>
                  atoms' = at_mut(atoms, proposed_atom'[1],
                                  new_atom(selected_atom_type'))
           /\ (~should_add_atom /\ should_remove_atom
                   /\ highlighted_atom' # None) =>
                  atoms' = at_mut(atoms, highlighted_atom'[1], GasZero)
           /\ (~should_add_atom /\ should_remove_atom
                   /\ highlighted_atom' = None) => atoms' = atoms
           /\ (~should_add_atom /\ ~should_remove_atom) => atoms' = atoms
           /\ panic' # "none" => atoms' = atoms]_vars

\* The second clicking frame of a run holds a left and a right click and is
\* about to edit; the Solid the first click added at (0, 1, 1) is the atom
\* the ray highlights, with no proposed position.
C30_Witness ==
    /\ pc = "select"
    /\ should_add_atom
    /\ should_remove_atom
    /\ edits_done = 2
    /\ steps_taken = 0
    /\ IsSolid(at(atoms, <<0, 1, 1>>))
    /\ highlighted_of(selection_of(atoms, Some([axis |-> 1, row |-> <<1, 1>>,
                                                dir |-> 1])))
           = Some(<<0, 1, 1>>)
    /\ proposed_of(selection_of(atoms, Some([axis |-> 1, row |-> <<1, 1>>,
                                             dir |-> 1])))
           = None

====
